---- MODULE Spec2Model ----
(***************************************************************************)
(* The markdown link checker of hack/tools/linkcheck: discovery of the     *)
(* pages under a root folder, resolution of the links of every page,       *)
(* validation of the resolved links against the page registry and the      *)
(* final report.                                                           *)
(*                                                                         *)
(* Strings are sequences of one-character strings, so that prefixes,       *)
(* extensions, fragments and path cleaning are computed character by       *)
(* character, the way the Go code and its libraries compute them.          *)
(***************************************************************************)
EXTENDS Naturals, Integers, Sequences, FiniteSets, TLC

VARIABLES
    root,           \* flag --root, an absolute path
    hugoFolder,     \* flag --hugo-folder
    hugoLanguages,  \* flag --hugo-languages
    verbose,        \* flag --verbose
    fs,             \* the file tree: path -> [isDir, content]
    pc,             \* position of main
    walkq,          \* paths filepath.Walk still has to hand to the callback
    heap,           \* the page objects allocated by addPage
    pages,          \* var pages []*page, as indices into heap
    pagesByPath,    \* var pagesByPath map[string]*page, path -> index into heap
    cursor,         \* loop index of linkcheckAll
    output,         \* what main printed
    exitCode,       \* exit status of the process, -1 while it runs
    readmdwg,       \* concurrent variant: var readmdwg sync.WaitGroup, its counter
    readmdq,        \* concurrent variant: the channel readmdq, "open" or "closed"
    problems,       \* concurrent variant: var problems []string
    senders,        \* concurrent variant: the paths whose goroutine waits in readmdq <- path
    reader          \* concurrent variant: the goroutine of readMDLoop

\* The state of the concurrent variant of the tool.
concurrent == <<readmdwg, readmdq, problems, senders, reader>>

vars == <<root, hugoFolder, hugoLanguages, verbose, fs, pc, walkq, heap, pages,
          pagesByPath, cursor, output, exitCode, concurrent>>

\* The goroutine of readMDLoop: its position, the path it received, the error
\* doReadMD returns for it, what doReadMD still has to do before it returns,
\* and calls, which holds for every path what a call of doReadMD does: that
\* depends on the flags and the tree only, which never change.
Reader(at, path, err, todo, calls) ==
    [pc |-> at, path |-> path, err |-> err, todo |-> todo, calls |-> calls]

\* The package variables of the concurrent variant before main runs.
ConcurrentInit ==
    /\ readmdwg = 0
    /\ readmdq = "open"
    /\ problems = <<>>
    /\ senders = {}
    /\ reader = Reader("idle", <<>>, "", <<>>, {})

(***************************************************************************)
(* Characters.                                                             *)
(***************************************************************************)
\* The printable ASCII characters in code order, from space (32) to tilde (126);
\* the grave accent (96), which a TLA+ string cannot hold, is spelled out.
Printable ==
    <<" ","!","\"","#","$","%","&","'","(",")","*","+",",","-",".","/",
      "0","1","2","3","4","5","6","7","8","9",":",";","<","=",">","?",
      "@","A","B","C","D","E","F","G","H","I","J","K","L","M","N","O",
      "P","Q","R","S","T","U","V","W","X","Y","Z","[","\\","]","^","_",
      "GRAVE","a","b","c","d","e","f","g","h","i","j","k","l","m","n","o",
      "p","q","r","s","t","u","v","w","x","y","z","{","|","}","~">>

\* The place of every printable character in the table.
PrintableIndex ==
    LET IndexOf(table) ==
            [c \in {table[i] : i \in 1..Len(table)} |->
                CHOOSE i \in 1..Len(table) : table[i] = c]
    IN IndexOf(Printable)

\* The byte value of a character (newline is 10, tab is 9).
Code(c) ==
    LET Lookup(index) == IF c \in DOMAIN index THEN 31 + index[c] ELSE 255
    IN IF c = "\n" THEN 10
       ELSE IF c = "\t" THEN 9
       ELSE Lookup(PrintableIndex)

Chr(n) == IF n = 10 THEN "\n"
          ELSE IF n = 9 THEN "\t"
          ELSE IF n >= 32 /\ n <= 126 THEN Printable[n - 31]
          ELSE "?"

IsLetter(c) ==
    LET Letter(n) == (n >= 65 /\ n <= 90) \/ (n >= 97 /\ n <= 122) IN Letter(Code(c))
IsDigit(c) ==
    LET Digit(n) == n >= 48 /\ n <= 57 IN Digit(Code(c))
IsHex(c) ==
    LET Hex(n) == (n >= 48 /\ n <= 57) \/ (n >= 65 /\ n <= 70) \/ (n >= 97 /\ n <= 102)
    IN Hex(Code(c))
\* regexp \s: [\t\n\f\r ]
IsSpace(c) == c \in {" ", "\t", "\n", "\r", "\f"}

Unhex(c) ==
    LET Value(n) == IF n >= 48 /\ n <= 57 THEN n - 48
                    ELSE IF n >= 97 THEN n - 97 + 10
                    ELSE n - 65 + 10
    IN Value(Code(c))

\* unicode.ToLower on one ASCII character.
LowerChar(c) ==
    LET Lower(n) == IF n >= 65 /\ n <= 90 THEN Chr(n + 32) ELSE c IN Lower(Code(c))

(***************************************************************************)
(* package strings                                                         *)
(***************************************************************************)
HasPrefix(s, prefix) ==
    Len(prefix) <= Len(s) /\ SubSeq(s, 1, Len(prefix)) = prefix

HasSuffix(s, suffix) ==
    Len(suffix) <= Len(s) /\ SubSeq(s, Len(s) - Len(suffix) + 1, Len(s)) = suffix

TrimPrefix(s, prefix) ==
    IF HasPrefix(s, prefix) THEN SubSeq(s, Len(prefix) + 1, Len(s)) ELSE s

TrimSuffix(s, suffix) ==
    IF HasSuffix(s, suffix) THEN SubSeq(s, 1, Len(s) - Len(suffix)) ELSE s

\* strings.IndexByte, 1-based; 0 when c does not occur in s.
IndexByte(s, c) ==
    LET First(at) == IF at = {} THEN 0 ELSE CHOOSE i \in at : \A j \in at : i <= j
    IN First({i \in 1..Len(s) : s[i] = c})

\* strings.LastIndexByte, 1-based; 0 when c does not occur in s.
LastIndexByte(s, c) ==
    LET Last(at) == IF at = {} THEN 0 ELSE CHOOSE i \in at : \A j \in at : j <= i
    IN Last({i \in 1..Len(s) : s[i] = c})

Contains(s, c) == \E i \in 1..Len(s) : s[i] = c

Count(s, c) == Cardinality({i \in 1..Len(s) : s[i] = c})

\* strings.Cut(s, c): the text before the first c, the text after it, found.
CutBefore(s, c) ==
    LET Before(i) == IF i # 0 THEN SubSeq(s, 1, i - 1) ELSE s IN Before(IndexByte(s, c))
CutAfter(s, c) ==
    LET After(i) == IF i # 0 THEN SubSeq(s, i + 1, Len(s)) ELSE <<>> IN After(IndexByte(s, c))

\* strings.Split(s, c) for a one-character separator.
RECURSIVE Split(_, _)
Split(s, c) ==
    LET At(i) == IF i = 0 THEN <<s>>
                 ELSE <<SubSeq(s, 1, i - 1)>> \o Split(SubSeq(s, i + 1, Len(s)), c)
    IN At(IndexByte(s, c))

\* strings.Join(elems, sep)
RECURSIVE StringsJoin(_, _)
StringsJoin(elems, sep) ==
    IF Len(elems) = 0 THEN <<>>
    ELSE IF Len(elems) = 1 THEN elems[1]
    ELSE elems[1] \o sep \o StringsJoin(Tail(elems), sep)

ToLower(s) == [i \in 1..Len(s) |-> LowerChar(s[i])]

\* strings.TrimSpace
RECURSIVE TrimLeftSpace(_)
TrimLeftSpace(s) ==
    IF Len(s) > 0 /\ IsSpace(s[1]) THEN TrimLeftSpace(Tail(s)) ELSE s

RECURSIVE TrimRightSpace(_)
TrimRightSpace(s) ==
    IF Len(s) > 0 /\ IsSpace(s[Len(s)]) THEN TrimRightSpace(SubSeq(s, 1, Len(s) - 1)) ELSE s

TrimSpace(s) == TrimRightSpace(TrimLeftSpace(s))

\* strings.ReplaceAll(s, old, new) for a one-character old.
RECURSIVE ReplaceAll(_, _, _)
ReplaceAll(s, old, new) ==
    IF Len(s) = 0 THEN <<>>
    ELSE (IF s[1] = old THEN new ELSE <<s[1]>>) \o ReplaceAll(Tail(s), old, new)

\* s < t for Go strings (bytewise).
RECURSIVE StrLess(_, _)
StrLess(s, t) ==
    LET Less(a, b) == Code(a) < Code(b)
    IN IF Len(t) = 0 THEN FALSE
       ELSE IF Len(s) = 0 THEN TRUE
       ELSE IF s[1] = t[1] THEN StrLess(Tail(s), Tail(t))
       ELSE Less(s[1], t[1])

(***************************************************************************)
(* package path/filepath (Unix)                                            *)
(***************************************************************************)
Slash == <<"/">>
Dot == <<".">>
DotDot == <<".",".">>

\* The elements of a path that Clean keeps: non-empty and not a single dot.
PathElems(path) == SelectSeq(Split(path, "/"), LAMBDA e : e # <<>> /\ e # Dot)

\* Clean on a dot-dot element: it removes the element before it, stays at the
\* front of a relative path and is dropped at the root.
RECURSIVE CleanElems(_, _, _)
CleanElems(elems, out, rooted) ==
    IF Len(elems) = 0 THEN out
    ELSE IF elems[1] = DotDot
         THEN IF Len(out) > 0 /\ out[Len(out)] # DotDot
              THEN CleanElems(Tail(elems), SubSeq(out, 1, Len(out) - 1), rooted)
              ELSE IF rooted THEN CleanElems(Tail(elems), out, rooted)
              ELSE CleanElems(Tail(elems), Append(out, DotDot), rooted)
         ELSE CleanElems(Tail(elems), Append(out, elems[1]), rooted)

Clean(path) ==
    LET Rooted(rooted) ==
            LET Cleaned(body) == IF rooted THEN Slash \o body
                                 ELSE IF body = <<>> THEN Dot ELSE body
            IN Cleaned(StringsJoin(CleanElems(PathElems(path), <<>>, rooted), Slash))
    IN IF path = <<>> THEN Dot ELSE Rooted(path[1] = "/")

IsAbs(path) == HasPrefix(path, Slash)

\* filepath.Join: the elements from the first non-empty one, joined and cleaned.
RECURSIVE Join(_)
Join(elem) ==
    IF Len(elem) = 0 THEN <<>>
    ELSE IF elem[1] # <<>> THEN Clean(StringsJoin(elem, Slash))
    ELSE Join(Tail(elem))

\* filepath.Dir: everything up to the last separator, cleaned.
Dir(path) == Clean(SubSeq(path, 1, LastIndexByte(path, "/")))

\* filepath.Base
RECURSIVE TrimRightSlash(_)
TrimRightSlash(s) ==
    IF Len(s) > 0 /\ s[Len(s)] = "/" THEN TrimRightSlash(SubSeq(s, 1, Len(s) - 1)) ELSE s

Base(path) ==
    LET Last(p) == IF p = <<>> THEN Slash ELSE SubSeq(p, LastIndexByte(p, "/") + 1, Len(p))
    IN IF path = <<>> THEN Dot ELSE Last(TrimRightSlash(path))

\* filepath.Ext: the suffix from the last dot of the last element.
Ext(path) ==
    LET FromDot(last, dot) == IF dot # 0 THEN SubSeq(last, dot, Len(last)) ELSE <<>>
        OfLast(last) == FromDot(last, LastIndexByte(last, "."))
    IN OfLast(SubSeq(path, LastIndexByte(path, "/") + 1, Len(path)))

(***************************************************************************)
(* package net/url: url.Parse, as far as the link checker depends on it:   *)
(* the scheme, the authority, the path, the query and the fragment of a    *)
(* raw URL, and the errors of a malformed one.                             *)
(***************************************************************************)
NilURL ==
    [nil |-> TRUE, Scheme |-> <<>>, Opaque |-> <<>>, Host |-> <<>>, Path |-> <<>>,
     ForceQuery |-> FALSE, RawQuery |-> <<>>, Fragment |-> <<>>]

\* getScheme: [err, scheme, rest]
RECURSIVE GetSchemeAt(_, _)
GetSchemeAt(rawURL, i) ==
    IF i > Len(rawURL) THEN [err |-> "", scheme |-> <<>>, rest |-> rawURL]
    ELSE LET c == rawURL[i]
         IN IF IsLetter(c) THEN GetSchemeAt(rawURL, i + 1)
            ELSE IF IsDigit(c) \/ c \in {"+", "-", "."}
                 THEN IF i = 1 THEN [err |-> "", scheme |-> <<>>, rest |-> rawURL]
                      ELSE GetSchemeAt(rawURL, i + 1)
            ELSE IF c = ":"
                 THEN IF i = 1
                      THEN [err |-> "missing protocol scheme", scheme |-> <<>>, rest |-> <<>>]
                      ELSE [err |-> "", scheme |-> SubSeq(rawURL, 1, i - 1),
                            rest |-> SubSeq(rawURL, i + 1, Len(rawURL))]
            ELSE [err |-> "", scheme |-> <<>>, rest |-> rawURL]

getScheme(rawURL) == GetSchemeAt(rawURL, 1)

\* unescape: a percent sign must be followed by two hexadecimal digits.
RECURSIVE ValidEscapes(_)
ValidEscapes(s) ==
    IF Len(s) = 0 THEN TRUE
    ELSE IF s[1] = "%"
         THEN Len(s) >= 3 /\ IsHex(s[2]) /\ IsHex(s[3]) /\ ValidEscapes(SubSeq(s, 4, Len(s)))
         ELSE ValidEscapes(Tail(s))

RECURSIVE Unescape(_)
Unescape(s) ==
    IF Len(s) = 0 THEN <<>>
    ELSE IF s[1] = "%" /\ Len(s) >= 3
         THEN <<Chr(16 * Unhex(s[2]) + Unhex(s[3]))>> \o Unescape(SubSeq(s, 4, Len(s)))
         ELSE <<s[1]>> \o Unescape(Tail(s))

\* validOptionalPort: empty, or a colon followed by digits.
ValidOptionalPort(port) ==
    port = <<>> \/ (port[1] = ":" /\ \A i \in 2..Len(port) : IsDigit(port[i]))

\* The characters unescape leaves alone in a host name.
HostChar(c) ==
    IsLetter(c) \/ IsDigit(c)
    \/ c \in {"-", "_", ".", "~", "!", "$", "&", "'", "(", ")", "*", "+", ",", ";",
              "=", ":", "[", "]", "<", ">", "\"", "%"}

\* parseHost (without IPv6 literals): the error, empty when there is none.
ParseHostErr(host) ==
    IF Contains(host, ":")
       /\ ~ValidOptionalPort(SubSeq(host, LastIndexByte(host, ":"), Len(host)))
    THEN "invalid port after host"
    ELSE IF ~ValidEscapes(host) THEN "invalid URL escape"
    ELSE IF \E i \in 1..Len(host) : ~HostChar(host[i]) THEN "invalid character in host name"
    ELSE ""

\* A failed parse: the error and no URL.
ParseError(e) == [err |-> e, url |-> NilURL]

\* parse, last steps: the error of the host, the escapes of the path, the URL.
ParseSetPath(base, authority, host, path, hostErr) ==
    IF authority /\ hostErr # "" THEN ParseError(hostErr)
    ELSE IF ~ValidEscapes(path) THEN ParseError("invalid URL escape")
    ELSE [err |-> "",
          url |-> [base EXCEPT !.Host = IF authority THEN Unescape(host) ELSE <<>>,
                               !.Path = Unescape(path)]]

\* parse, the authority: the host runs up to the first slash of afterSlashes,
\* which is at index slash (0 when there is none), and the path starts there.
ParseAuthority(base, rest, authority, afterSlashes, slash, host) ==
    ParseSetPath(base, authority, host,
                 IF ~authority THEN rest
                 ELSE IF slash # 0 THEN SubSeq(afterSlashes, slash, Len(afterSlashes))
                 ELSE <<>>,
                 ParseHostErr(host))

\* parse, after the query has been cut off rest: an opaque URL, a first
\* segment with a colon, or an authority and a path.
ParseRest(scheme, base, rest) ==
    IF ~HasPrefix(rest, Slash) /\ scheme # <<>>
    THEN [err |-> "", url |-> [base EXCEPT !.Opaque = rest]]
    ELSE IF ~HasPrefix(rest, Slash) /\ Contains(CutBefore(rest, "/"), ":")
    THEN ParseError("first path segment in URL cannot contain colon")
    ELSE ParseAuthority(base, rest,
                        HasPrefix(rest, <<"/","/">>) /\ (scheme # <<>> \/ ~HasPrefix(rest, <<"/","/","/">>)),
                        SubSeq(rest, 3, Len(rest)),
                        IndexByte(SubSeq(rest, 3, Len(rest)), "/"),
                        CutBefore(SubSeq(rest, 3, Len(rest)), "/"))

\* parse, the query: a trailing question mark alone forces an empty query.
ParseQuery(scheme, rest, force) ==
    ParseRest(scheme,
              [NilURL EXCEPT !.nil = FALSE, !.Scheme = scheme, !.ForceQuery = force,
                             !.RawQuery = IF force THEN <<>> ELSE CutAfter(rest, "?")],
              IF force THEN SubSeq(rest, 1, Len(rest) - 1) ELSE CutBefore(rest, "?"))

\* parse, the scheme that getScheme found.
ParseScheme(sch) ==
    IF sch.err # "" THEN ParseError(sch.err)
    ELSE ParseQuery(ToLower(sch.scheme), sch.rest,
                    HasSuffix(sch.rest, <<"?">>) /\ Count(sch.rest, "?") = 1)

\* stringContainsCTLByte, on the code of one byte.
IsCTLByte(n) == n < 32 \/ n = 127

\* parse(rawURL, viaRequest = false) of a URL whose fragment has been cut off.
ParseNoFragment(u) ==
    IF \E i \in 1..Len(u) : IsCTLByte(Code(u[i]))
    THEN ParseError("invalid control character in URL")
    ELSE IF u = <<"*">> THEN [err |-> "", url |-> [NilURL EXCEPT !.nil = FALSE, !.Path = u]]
    ELSE ParseScheme(getScheme(u))

\* parse, the fragment frag that was cut off the URL parsed into res.
ParseFragment(res, frag) ==
    IF res.err # "" THEN res
    ELSE IF frag = <<>> THEN res
    ELSE IF ~ValidEscapes(frag) THEN ParseError("invalid URL escape")
    ELSE [err |-> "", url |-> [res.url EXCEPT !.Fragment = Unescape(frag)]]

\* url.Parse: [err, url]; err is empty when rawURL parses.
Parse(rawURL) == ParseFragment(ParseNoFragment(CutBefore(rawURL, "#")), CutAfter(rawURL, "#"))

(***************************************************************************)
(* The file tree and package os.                                           *)
(***************************************************************************)
\* The absolute paths leading to path: one per element, the last is path itself.
PrefixesOf(elems) ==
    [k \in 1..Len(elems) |-> Slash \o StringsJoin(SubSeq(elems, 1, k), Slash)]

Prefixes(path) == PrefixesOf(PathElems(path))

\* os.Stat on an absolute path, in a tree without symbolic links:
\* "dir", "file", "ENOENT" (an element is missing) or "ENOTDIR" (an element
\* that is followed by another one, or by a slash, is a regular file).
\* Stat, when the lookup stops at prefix p: p is missing, or is a regular file.
StatStopsAt(p) == IF p \notin DOMAIN fs THEN "ENOENT" ELSE "ENOTDIR"

\* Stat, the lookup along the prefixes pre of path; bad holds the places of the
\* prefixes that are missing or are regular files followed by another element.
StatLookup(path, pre, bad) ==
    IF path = <<>> THEN "ENOENT"
    ELSE IF bad # {} THEN StatStopsAt(pre[CHOOSE k \in bad : \A j \in bad : k <= j])
    ELSE IF Len(pre) = 0 THEN "dir"
    ELSE IF fs[pre[Len(pre)]].isDir THEN "dir"
    ELSE IF path[Len(path)] = "/" THEN "ENOTDIR"
    ELSE "file"

StatPrefixes(path, pre) ==
    StatLookup(path, pre,
               {k \in 1..Len(pre) :
                   pre[k] \notin DOMAIN fs \/ (k < Len(pre) /\ ~fs[pre[k]].isDir)})

Stat(path) == StatPrefixes(path, Prefixes(path))

\* errors.Is(err, os.ErrNotExist) and os.IsNotExist(err): ENOENT only.
IsNotExist(st) == st = "ENOENT"

\* isDirectory: [isDir, err]
isDirectoryStat(st) ==
    IF st \in {"dir", "file"} THEN [isDir |-> st = "dir", err |-> ""]
    ELSE IF IsNotExist(st) THEN [isDir |-> FALSE, err |-> ""]
    ELSE [isDir |-> FALSE, err |-> "not a directory"]

isDirectory(path) == isDirectoryStat(Stat(path))

\* os.ReadFile: [err, content]; reading a directory fails, and so does reading
\* a file without read permission.
ReadFileStat(st, name) ==
    IF st = "dir" THEN [err |-> "is a directory", content |-> <<>>]
    ELSE IF st # "file" THEN [err |-> st, content |-> <<>>]
    ELSE IF fs[name].noread THEN [err |-> "permission denied", content |-> <<>>]
    ELSE [err |-> "", content |-> fs[name].content]

ReadFile(path) == ReadFileStat(Stat(path), Clean(path))

(***************************************************************************)
(* Pages and links.                                                        *)
(***************************************************************************)
contentFolder == <<"c","o","n","t","e","n","t">>
anchorSeparator == <<"#">>
MdExt == <<".","m","d">>
IndexMd == <<"_","i","n","d","e","x",".","m","d">>

\* A fatalError string: the message and the values formatted into it.
\* The empty string is NoError.
Err(msg, a1, a2) == [msg |-> msg, a1 |-> a1, a2 |-> a2]
NoError == Err("", <<>>, <<>>)

\* type link struct
Link(rawLink, lineNumber, fatalError, URL) ==
    [rawLink |-> rawLink, lineNumber |-> lineNumber, fatalError |-> fatalError, URL |-> URL]

\* filepath.Join(*root, *hugoFolder, contentFolder)
ContentDir == Join(<<root, hugoFolder, contentFolder>>)

\* The languages whose directory is a prefix of path, by position in the flag.
MatchingLanguages(path) ==
    {i \in 1..Len(hugoLanguages) : HasPrefix(path, Join(<<ContentDir, hugoLanguages[i]>>))}

\* newPage, the body of the loop for a language l whose directory is a prefix.
newPageInLanguage(p, l) ==
    [p EXCEPT !.hugoLanguage = l, !.hugoPath = TrimPrefix(p.path, Join(<<ContentDir, l>>))]

\* newPage, after the loop over the languages.
newPageAfterLoop(q) ==
    IF q.hugoLanguage # <<>> THEN q
    ELSE [q EXCEPT !.fatalError =
                       Err("hugo page %s does not belong to one of the know languages: %s",
                           TrimPrefix(q.path, ContentDir),
                           StringsJoin(hugoLanguages, <<","," ">>))]

\* newPage, the loop over the languages, of which those at the places m
\* match: the loop overwrites, so the last matching language wins.
newPageLoop(p, m) ==
    newPageAfterLoop(IF m = {} THEN p
                     ELSE newPageInLanguage(p, hugoLanguages[CHOOSE i \in m : \A j \in m : j <= i]))

\* newPage, from p := page{path: path} with isHugoPage set.
newPageFrom(p) ==
    IF ~HasPrefix(p.path, ContentDir) THEN [p EXCEPT !.isHugoPage = FALSE]
    ELSE IF Len(hugoLanguages) = 0 THEN p
    ELSE newPageLoop(p, MatchingLanguages(p.path))

newPage(path) ==
    newPageFrom([path |-> path, fatalError |-> NoError, isHugoPage |-> TRUE,
                 hugoLanguage |-> <<>>, hugoPath |-> <<>>, links |-> <<>>, anchors |-> <<>>])

newPageWithFatalError(path, error) ==
    [path |-> path, fatalError |-> error, isHugoPage |-> FALSE,
     hugoLanguage |-> <<>>, hugoPath |-> <<>>, links |-> <<>>, anchors |-> <<>>]

\* refRx: blanks, two braces and a less-than sign, blanks, a tag without
\* blanks, blanks, a quoted value without blanks or equal signs, blanks, a
\* greater-than sign and two braces, blanks. [ok, tag, value]
refRxNoMatch == [ok |-> FALSE, tag |-> <<>>, value |-> <<>>]

\* refRx, the quoted value q that follows the tag and its blanks.
refRxValue(tag, q) ==
    IF /\ Len(q) >= 3 /\ q[1] = "\"" /\ q[Len(q)] = "\""
       /\ \A i \in 2..(Len(q) - 1) : ~IsSpace(q[i]) /\ q[i] # "="
    THEN [ok |-> TRUE, tag |-> tag, value |-> SubSeq(q, 2, Len(q) - 1)]
    ELSE refRxNoMatch

\* refRx, the tag: the text of inner before its first blank, which is at sp.
refRxTag(inner, sp) ==
    IF sp <= 1 THEN refRxNoMatch
    ELSE refRxValue(SubSeq(inner, 1, sp - 1), TrimLeftSpace(SubSeq(inner, sp, Len(inner))))

\* The place of the first blank of s, 0 when it has none.
IndexSpace(s) ==
    IF \E i \in 1..Len(s) : IsSpace(s[i])
    THEN CHOOSE i \in 1..Len(s) : IsSpace(s[i]) /\ \A j \in 1..(i - 1) : ~IsSpace(s[j])
    ELSE 0

\* refRx, the text between the braces, without the blanks around it.
refRxInner(inner) == refRxTag(inner, IndexSpace(inner))

\* refRx, the braces around t, which has no blanks around it.
refRxBraces(t) ==
    IF Len(t) >= 6 /\ HasPrefix(t, <<"{","{","<">>) /\ HasSuffix(t, <<">","}","}">>)
    THEN refRxInner(TrimSpace(SubSeq(t, 4, Len(t) - 3)))
    ELSE refRxNoMatch

refRx(s) == refRxBraces(TrimSpace(s))

splitPathAndFragment(addr) ==
    IF Contains(addr, "#")
    THEN [path |-> Split(addr, "#")[1], fragment |-> TrimPrefix(addr, Split(addr, "#")[1])]
    ELSE [path |-> addr, fragment |-> <<>>]

\* A variant of parseLink whose advice on a markdown extension keeps the extension.
parseLinkKeepsExt(rawLink) ==
    LET refs == refRx(rawLink)
        pf == splitPathAndFragment(rawLink)
        fail(e) == [err |-> e, path |-> <<>>, fragment |-> <<>>, language |-> <<>>]
    IN IF refs.ok /\ (refs.tag = <<"r","e","f">> \/ refs.tag = <<"r","e","f","L","i","n","k">>)
       THEN fail(Err("ref/refLink shortcodes must not be used, use %q instead",
                     refs.value, <<>>))
       ELSE IF Base(pf.path) = IndexMd
       THEN fail(Err("links must not end with _index.md, use \"%s/\" instead",
                     Dir(pf.path), <<>>))
       ELSE IF Ext(pf.path) = MdExt
       THEN fail(Err("links must not have .md extension, use \"%s%s\" instead",
                     pf.path, pf.fragment))
       ELSE [err |-> NoError, path |-> pf.path, fragment |-> pf.fragment, language |-> <<>>]

\* A variant of parseLink that looks at the extension before the base name.
parseLinkExtFirst(rawLink) ==
    LET refs == refRx(rawLink)
        pf == splitPathAndFragment(rawLink)
        fail(e) == [err |-> e, path |-> <<>>, fragment |-> <<>>, language |-> <<>>]
    IN IF refs.ok /\ (refs.tag = <<"r","e","f">> \/ refs.tag = <<"r","e","f","L","i","n","k">>)
       THEN fail(Err("ref/refLink shortcodes must not be used, use %q instead",
                     refs.value, <<>>))
       ELSE IF Ext(pf.path) = MdExt
       THEN fail(Err("links must not have .md extension, use \"%s%s\" instead",
                     TrimSuffix(pf.path, MdExt), pf.fragment))
       ELSE IF Base(pf.path) = IndexMd
       THEN fail(Err("links must not end with _index.md, use \"%s/\" instead",
                     Dir(pf.path), <<>>))
       ELSE [err |-> NoError, path |-> pf.path, fragment |-> pf.fragment, language |-> <<>>]

\* parseLink, a return with an error.
parseLinkError(e) == [err |-> e, path |-> <<>>, fragment |-> <<>>, language |-> <<>>]

\* parseLink, a plain markdown link split into pf.path and pf.fragment.
parseLinkPlain(pf) ==
    IF Base(pf.path) = IndexMd
    THEN parseLinkError(Err("links must not end with _index.md, use \"%s/\" instead",
                            Dir(pf.path), <<>>))
    ELSE IF Ext(pf.path) = MdExt
    THEN parseLinkError(Err("links must not have .md extension, use \"%s%s\" instead",
                            TrimSuffix(pf.path, MdExt), pf.fragment))
    ELSE [err |-> NoError, path |-> pf.path, fragment |-> pf.fragment, language |-> <<>>]

\* parseLink, with the match refs of refRx on rawLink.
parseLinkRefs(rawLink, refs) ==
    IF refs.ok /\ (refs.tag = <<"r","e","f">> \/ refs.tag = <<"r","e","f","L","i","n","k">>)
    THEN parseLinkError(Err("ref/refLink shortcodes must not be used, use %q instead",
                            refs.value, <<>>))
    ELSE parseLinkPlain(splitPathAndFragment(rawLink))

\* parseLink: [err, path, fragment, language]
parseLink(rawLink) == parseLinkRefs(rawLink, refRx(rawLink))

\* A variant of addLinkLocal that resolves a relative path from the language
\* folder, not from the folder of the page.
addLinkLocalFromLanguageRoot(p, l, lineNumber) ==
    LET parsed == parseLink(l)
        path0 == IF parsed.path = <<>>
                 THEN TrimSuffix(Base(p.hugoPath), MdExt)
                 ELSE parsed.path
        path == IF ~IsAbs(path0) THEN Join(<<Slash, path0>>) ELSE path0
        language == IF parsed.language = <<>> THEN p.hugoLanguage ELSE parsed.language
        rawURL0 == Join(<<ContentDir, language, path>>)
        d == isDirectory(rawURL0)
        rawURL1 == IF d.isDir THEN Join(<<rawURL0, IndexMd>>) ELSE rawURL0 \o MdExt
        rawURL == IF parsed.fragment # <<>> THEN rawURL1 \o parsed.fragment ELSE rawURL1
        URL == Parse(rawURL)
    IN IF parsed.err # NoError
       THEN Link(l, lineNumber, parsed.err, NilURL)
       ELSE IF d.err # ""
       THEN Link(l, lineNumber, Err("error checking if path is a directory: " \o d.err, rawURL0, <<>>),
                 NilURL)
       ELSE IF URL.err # ""
       THEN Link(l, lineNumber, Err("error parsing url: " \o URL.err, rawURL, <<>>), NilURL)
       ELSE Link(l, lineNumber, NoError, URL.url)

\* addLink, the end: URL is what url.Parse makes of rawURL.
addLinkURL(l, lineNumber, rawURL, URL) ==
    IF URL.err # ""
    THEN Link(l, lineNumber, Err("error parsing url: " \o URL.err, rawURL, <<>>), NilURL)
    ELSE Link(l, lineNumber, NoError, URL.url)

\* addLink, with the fragment appended to rawURL.
addLinkRawURL(l, lineNumber, rawURL) == addLinkURL(l, lineNumber, rawURL, Parse(rawURL))

\* A variant of addLinkIsDirectory that appends the extension to the index
\* file name of a directory as well.
addLinkIsDirectoryThenExt(l, lineNumber, fragment, rawURL, d) ==
    IF d.err # ""
    THEN Link(l, lineNumber, Err("error checking if path is a directory: " \o d.err, rawURL, <<>>),
              NilURL)
    ELSE addLinkRawURL(l, lineNumber,
                       (IF d.isDir THEN Join(<<rawURL, IndexMd>>) \o MdExt ELSE rawURL \o MdExt)
                       \o (IF fragment # <<>> THEN fragment ELSE <<>>))

\* addLink, with the answer d of isDirectory(rawURL).
addLinkIsDirectory(l, lineNumber, fragment, rawURL, d) ==
    IF d.err # ""
    THEN Link(l, lineNumber, Err("error checking if path is a directory: " \o d.err, rawURL, <<>>),
              NilURL)
    ELSE addLinkRawURL(l, lineNumber,
                       (IF d.isDir THEN Join(<<rawURL, IndexMd>>) ELSE rawURL \o MdExt)
                       \o (IF fragment # <<>> THEN fragment ELSE <<>>))

\* addLink, with rawURL := filepath.Join(contentDir, language, path).
addLinkTarget(l, lineNumber, fragment, rawURL) ==
    addLinkIsDirectory(l, lineNumber, fragment, rawURL, isDirectory(rawURL))

\* addLink, with the path of the link, or the name of the page for a link
\* that is a fragment only.
addLinkPath(p, l, lineNumber, path, fragment, language) ==
    addLinkTarget(l, lineNumber, fragment,
                  Join(<<ContentDir,
                         IF language = <<>> THEN p.hugoLanguage ELSE language,
                         IF ~IsAbs(path) THEN Join(<<Dir(p.hugoPath), path>>) ELSE path>>))

\* addLink, with the answer parsed of parseLink(l).
addLinkParsed(p, l, lineNumber, parsed) ==
    IF parsed.err # NoError
    THEN Link(l, lineNumber, parsed.err, NilURL)
    ELSE addLinkPath(p, l, lineNumber,
                     IF parsed.path = <<>>
                     THEN TrimSuffix(Base(p.hugoPath), MdExt)
                     ELSE parsed.path,
                     parsed.fragment, parsed.language)

\* The link that p.addLink(l, lineNumber) records for a link without scheme on a hugo page.
addLinkLocal(p, l, lineNumber) == addLinkParsed(p, l, lineNumber, parseLink(l))

\* A variant of addLink that asks for a scheme on every link of a page outside
\* the hugo website, whatever the link.
addLinkPolicyFirst(p, l, lineNumber) ==
    LET u == Parse(l)
        new == IF u.err # ""
               THEN Link(l, lineNumber, Err("error parsing url: " \o u.err, l, <<>>), NilURL)
               ELSE IF ~p.isHugoPage
               THEN Link(l, lineNumber,
                         Err("scheme is required on links outside the hugo website",
                             <<>>, <<>>),
                         NilURL)
               ELSE IF u.url.Scheme = <<>>
               THEN addLinkLocal(p, l, lineNumber)
               ELSE Link(l, 1, NoError, u.url)
    IN [p EXCEPT !.links = Append(p.links, new)]

\* A variant of addLink that parses the link before it looks at the page.
addLinkParseFirst(p, l, lineNumber) ==
    LET u == Parse(l)
        new == IF u.err # ""
               THEN Link(l, lineNumber, Err("error parsing url: " \o u.err, l, <<>>), NilURL)
               ELSE IF u.url.Scheme = <<>>
               THEN IF parseLink(l).err # NoError
                    THEN Link(l, lineNumber, parseLink(l).err, NilURL)
                    ELSE IF ~p.isHugoPage
                    THEN Link(l, lineNumber,
                              Err("scheme is required on links outside the hugo website",
                                  <<>>, <<>>),
                              NilURL)
                    ELSE addLinkLocal(p, l, lineNumber)
               ELSE Link(l, 1, NoError, u.url)
    IN [p EXCEPT !.links = Append(p.links, new)]

\* A variant of addLinkParsedLink that keeps the parsed URL on the link it
\* refuses on a page outside the hugo website.
addLinkParsedLinkKeepsURL(p, l, lineNumber, u) ==
    IF u.err # ""
    THEN Link(l, lineNumber, Err("error parsing url: " \o u.err, l, <<>>), NilURL)
    ELSE IF u.url.Scheme = <<>>
    THEN IF ~p.isHugoPage
         THEN Link(l, lineNumber,
                   Err("scheme is required on links outside the hugo website", <<>>, <<>>),
                   u.url)
         ELSE addLinkLocal(p, l, lineNumber)
    ELSE Link(l, 1, NoError, u.url)

\* A variant of addLinkParsedLink that applies the rules of parseLink before it
\* asks for a scheme on a page outside the hugo website.
addLinkParsedLinkRulesFirst(p, l, lineNumber, u) ==
    IF u.err # ""
    THEN Link(l, lineNumber, Err("error parsing url: " \o u.err, l, <<>>), NilURL)
    ELSE IF u.url.Scheme = <<>>
    THEN IF parseLink(l).err # NoError
         THEN Link(l, lineNumber, parseLink(l).err, NilURL)
         ELSE IF ~p.isHugoPage
         THEN Link(l, lineNumber,
                   Err("scheme is required on links outside the hugo website", <<>>, <<>>),
                   NilURL)
         ELSE addLinkLocal(p, l, lineNumber)
    ELSE Link(l, 1, NoError, u.url)

\* addLink, the link it appends, with the answer u of url.Parse(l).
addLinkParsedLink(p, l, lineNumber, u) ==
    IF u.err # ""
    THEN Link(l, lineNumber, Err("error parsing url: " \o u.err, l, <<>>), NilURL)
    ELSE IF u.url.Scheme = <<>>
    THEN IF ~p.isHugoPage
         THEN Link(l, lineNumber,
                   Err("scheme is required on links outside the hugo website", <<>>, <<>>),
                   NilURL)
         ELSE addLinkLocal(p, l, lineNumber)
    ELSE Link(l, 1, NoError, u.url)

\* page.addLink: page p with the link for l appended.
addLink(p, l, lineNumber) ==
    [p EXCEPT !.links = Append(p.links, addLinkParsedLink(p, l, lineNumber, Parse(l)))]

\* A variant of logPath that prints every page as one outside the hugo website.
logPathFromRoot(p) == <<"<","r","o","o","t",">","/">> \o TrimPrefix(p.path, root)

\* page.logPath, with the path its two formats print.
logPath(p) ==
    IF p.isHugoPage THEN <<"<","s","i","t","e",">","/","c","o","n","t","e","n","t","/">> \o p.hugoLanguage \o p.hugoPath
    ELSE <<"<","r","o","o","t",">","/">> \o TrimPrefix(p.path, root)

(***************************************************************************)
(* Reading a markdown page: its anchors and its links.                     *)
(***************************************************************************)
\* The first index from i on that holds no blank (Len(s) + 1 when none).
RECURSIVE SpaceRunEnd(_, _)
SpaceRunEnd(s, i) == IF i <= Len(s) /\ IsSpace(s[i]) THEN SpaceRunEnd(s, i + 1) ELSE i

\* The first index from i on that holds no c.
RECURSIVE RunEnd(_, _, _)
RunEnd(s, i, c) == IF i <= Len(s) /\ s[i] = c THEN RunEnd(s, i + 1, c) ELSE i

\* The first index from i on that holds c (Len(s) + 1 when none).
RECURSIVE Find(_, _, _)
Find(s, i, c) == IF i <= Len(s) /\ s[i] # c THEN Find(s, i + 1, c) ELSE i

\* anchorRx at the line start i: blanks, number signs, blanks, then the
\* captured rest of a line. The blanks may hold newlines; when nothing follows
\* the blanks the match gives back blanks, then a number sign, to the capture.
\* [ok, from, to]: the capture is s[from .. to - 1] and the match ends at to.
anchorRxAt(s, i) ==
    LET a == SpaceRunEnd(s, i)
        b == RunEnd(s, a, "#")
        c == SpaceRunEnd(s, b)
        blanks == {j \in b..(c - 1) : s[j] # "\n"}
        j == CHOOSE x \in blanks : \A y \in blanks : y <= x
    IN IF b = a THEN [ok |-> FALSE, from |-> 0, to |-> 0]
       ELSE IF c <= Len(s) THEN [ok |-> TRUE, from |-> c, to |-> Find(s, c, "\n")]
       ELSE IF blanks # {} THEN [ok |-> TRUE, from |-> j, to |-> Find(s, j, "\n")]
       ELSE IF b - a >= 2 THEN [ok |-> TRUE, from |-> b - 1, to |-> Find(s, b - 1, "\n")]
       ELSE [ok |-> FALSE, from |-> 0, to |-> 0]

\* anchorRx.FindAllStringSubmatch(body, -1): the captures, from line start i on.
RECURSIVE anchorRxFindAll(_, _)
anchorRxFindAll(s, i) ==
    LET Next(m) == IF m.ok
                   THEN <<SubSeq(s, m.from, m.to - 1)>> \o anchorRxFindAll(s, m.to + 1)
                   ELSE anchorRxFindAll(s, Find(s, i, "\n") + 1)
    IN IF i > Len(s) THEN <<>> ELSE Next(anchorRxAt(s, i))

\* readMarkdownAnchors, the loop over the matches mv.
readMarkdownAnchorsOf(mv) ==
    [k \in 1..Len(mv) |->
        ReplaceAll(ReplaceAll(ToLower(TrimSpace(mv[k])), " ", <<"-">>), "/", <<>>)]

readMarkdownAnchors(body) == readMarkdownAnchorsOf(anchorRxFindAll(body, 1))

\* lRx at index i: a character that is no exclamation mark, a bracketed text,
\* a parenthesised address. [ok, from, to]: the address is s[from .. to - 1]
\* and the match ends at to.
lRxAt(s, i) ==
    LET j == Find(s, i + 2, "]")
        k == Find(s, j + 2, ")")
    IN IF /\ i + 1 <= Len(s) /\ s[i] # "!" /\ s[i + 1] = "["
          /\ j <= Len(s) /\ j >= i + 3
          /\ j + 1 <= Len(s) /\ s[j + 1] = "("
          /\ k <= Len(s) /\ k >= j + 3
       THEN [ok |-> TRUE, from |-> j + 2, to |-> k]
       ELSE [ok |-> FALSE, from |-> 0, to |-> 0]

RECURSIVE lRxFindAll(_, _)
lRxFindAll(s, i) ==
    LET Next(m) == IF m.ok THEN <<SubSeq(s, m.from, m.to - 1)>> \o lRxFindAll(s, m.to + 1)
                   ELSE lRxFindAll(s, i + 1)
    IN IF i > Len(s) THEN <<>> ELSE Next(lRxAt(s, i))

\* referencelRx on a whole line: blanks, a bracketed text, a colon, blanks, the
\* captured rest; with only blanks after the colon the last one is captured.
referencelRxFindAll(s) ==
    LET a == SpaceRunEnd(s, 1)
        j == Find(s, a + 1, "]")
        c == SpaceRunEnd(s, j + 2)
    IN IF /\ a >= 2 /\ a <= Len(s) /\ s[a] = "["
          /\ j <= Len(s) /\ j >= a + 2
          /\ j + 1 <= Len(s) /\ s[j + 1] = ":"
          /\ c >= j + 3
          /\ (c <= Len(s) \/ c >= j + 4)
       THEN <<SubSeq(s, IF c <= Len(s) THEN c ELSE Len(s), Len(s))>>
       ELSE <<>>

readMarkdownLineLinks(line) == lRxFindAll(line, 1) \o referencelRxFindAll(line)

\* p.addLink(l, lineNumber) for every l of links, in order.
RECURSIVE addLinks(_, _, _)
addLinks(p, links, lineNumber) ==
    IF Len(links) = 0 THEN p
    ELSE addLinks(addLink(p, links[1], lineNumber), Tail(links), lineNumber)

\* The loop of readMarkdownPage over the lines from number i on.
RECURSIVE addLineLinks(_, _, _)
addLineLinks(p, lines, i) ==
    IF i > Len(lines) THEN p
    ELSE addLineLinks(addLinks(p, readMarkdownLineLinks(lines[i]), i), lines, i + 1)

\* readMarkdownPage, with the new page p and the answer f of os.ReadFile(path).
readMarkdownPageFile(p, f) ==
    IF f.err # ""
    THEN [p EXCEPT !.fatalError = Err("Error reading content: " \o f.err, p.path, <<>>)]
    ELSE addLineLinks([p EXCEPT !.anchors = readMarkdownAnchors(f.content)],
                      Split(f.content, "\n"), 1)

readMarkdownPage(path) == readMarkdownPageFile(newPage(path), ReadFile(path))

(***************************************************************************)
(* The registry and the validation of the links of a page.                 *)
(***************************************************************************)
\* A variant of hasAnchor that compares the anchors with the fragment and its separator.
hasAnchorWithSeparator(targetp, fragment) ==
    \E k \in 1..Len(targetp.anchors) : targetp.anchors[k] = anchorSeparator \o fragment

\* The loop over targetp.anchors: found.
hasAnchor(targetp, fragment) ==
    \E k \in 1..Len(targetp.anchors) : targetp.anchors[k] = fragment

\* A variant of linkcheckLink that checks a link again when it is in error already.
linkcheckLinkAgain(l) ==
    IF l.URL.Scheme # <<>> THEN l
    ELSE IF IsNotExist(Stat(l.URL.Path))
    THEN [l EXCEPT !.fatalError =
             Err("the link resolves to %s which does not exist",
                 TrimPrefix(l.URL.Path, root), <<>>)]
    ELSE l

\* linkcheckPage on one link l, with the registry as it stands.
linkcheckLink(l) ==
    LET targetp == heap[pagesByPath[l.URL.Path]]
    IN IF l.fatalError # NoError THEN l
       ELSE IF l.URL.Scheme # <<>> THEN l
       ELSE IF IsNotExist(Stat(l.URL.Path))
       THEN [l EXCEPT !.fatalError =
                Err("the link resolves to %s which does not exist",
                    TrimPrefix(l.URL.Path, root), <<>>)]
       ELSE IF l.URL.Path \notin DOMAIN pagesByPath
       THEN [l EXCEPT !.fatalError =
                Err("the link resolves to %s which has not been processed by linkcheck",
                    l.URL.Path, <<>>)]
       ELSE IF l.URL.Fragment # <<>> /\ ~hasAnchor(targetp, l.URL.Fragment)
       THEN [l EXCEPT !.fatalError =
                Err("%s%s does exists in %s",
                    anchorSeparator \o l.URL.Fragment, logPath(targetp))]
       ELSE l

\* A variant of linkcheckPage that checks the links of a page whatever its fatal error.
linkcheckPageWhateverError(path) ==
    LET p == heap[pagesByPath[path]]
    IN [p EXCEPT !.links = [i \in 1..Len(p.links) |-> linkcheckLink(p.links[i])]]

\* A variant of linkcheckPage that gives up on a page at its first link in error.
linkcheckPageStopsAtError(path) ==
    LET p == heap[pagesByPath[path]]
        failed(i) == \E k \in 1..i : linkcheckLink(p.links[k]).fatalError # NoError
    IN IF p.fatalError # NoError THEN p
       ELSE [p EXCEPT !.links = [i \in 1..Len(p.links) |->
                                    IF failed(i - 1) THEN p.links[i]
                                    ELSE linkcheckLink(p.links[i])]]

\* The page object registered under path, after linkcheckPage(path).
linkcheckPage(path) ==
    LET p == heap[pagesByPath[path]]
    IN IF p.fatalError # NoError THEN p
       ELSE [p EXCEPT !.links = [i \in 1..Len(p.links) |-> linkcheckLink(p.links[i])]]

(***************************************************************************)
(* filepath.Walk and sort.SliceStable                                      *)
(***************************************************************************)
\* readDirNames: the entries of directory dir, sorted by name.
RECURSIVE SortNames(_)
SortNames(todo) ==
    LET First(p) == <<p>> \o SortNames(todo \ {p})
    IN IF todo = {} THEN <<>>
       ELSE First(CHOOSE x \in todo : \A y \in todo \ {x} : StrLess(x, y))

readDirNames(tree, dir) ==
    SortNames({p \in DOMAIN tree :
                  /\ HasPrefix(p, dir \o Slash)
                  /\ Len(p) > Len(dir) + 1
                  /\ ~Contains(SubSeq(p, Len(dir) + 2, Len(p)), "/")})

\* The calls of the walk function that filepath.Walk(dir, fn) makes, in order:
\* a directory first, with the error of reading it, then its entries by name.
RECURSIVE walk(_, _)
walk(tree, path) ==
    LET Entries(names) ==
            LET F[i \in 0..Len(names)] ==
                    IF i = 0 THEN <<>> ELSE F[i - 1] \o walk(tree, names[i])
            IN F[Len(names)]
    IN IF ~tree[path].isDir THEN <<[path |-> path, err |-> FALSE]>>
       ELSE IF tree[path].noread THEN <<[path |-> path, err |-> TRUE]>>
       ELSE <<[path |-> path, err |-> FALSE]>> \o Entries(readDirNames(tree, path))

Walk(tree, dir) == walk(tree, dir)

\* sort.SliceStable of page pointers by path: insertion keeps equal paths in order.
RECURSIVE InsertSorted(_, _)
InsertSorted(sorted, x) ==
    IF Len(sorted) = 0 THEN <<x>>
    ELSE IF StrLess(heap[x].path, heap[sorted[1]].path) THEN <<x>> \o sorted
    ELSE <<sorted[1]>> \o InsertSorted(Tail(sorted), x)

\* A variant of SliceStable that leaves the pages in the order they were found.
SliceStableAsFound(done, rest) == done \o rest

RECURSIVE SliceStable(_, _)
SliceStable(done, rest) ==
    IF Len(rest) = 0 THEN done
    ELSE SliceStable(InsertSorted(done, rest[1]), Tail(rest))

(***************************************************************************)
(* The inputs: the flags and the file tree the tool is run on.             *)
(***************************************************************************)
\* The most lines with a link that the page under test holds.
MaxLines == 2

DirNode == [isDir |-> TRUE, noread |-> FALSE, content |-> <<>>]
LockedDirNode == [isDir |-> TRUE, noread |-> TRUE, content |-> <<>>]
FileNode(content) == [isDir |-> FALSE, noread |-> FALSE, content |-> content]

RootDir == <<"/","r","o","o","t">>
HugoDir == <<"h","u","g","o">>
EnDir == <<"/","r","o","o","t","/","h","u","g","o","/","c","o","n","t","e","n","t","/","e","n">>

\* Lines of markdown with a link each, in the order a page holds them.
Corpus ==
    << <<" ","[","a","]","(","a","n","o","t","h","e","r",")">>,
       <<" ","[","a","]","(","a","n","o","t","h","e","r","#","a","n","c","h","o","r",")">>,
       <<" ","[","a","]","(","a","n","o","t","h","e","r","#","n","o","p","e",")">>,
       <<" ","[","a","]","(","i","n","v","a","l","i","d",")">>,
       <<" ","[","a","]","(","#","t","i","t","l","e",")">>,
       <<" ","[","a","]","(","#","n","o","p","e",")">>,
       <<" ","[","a","]","(","a","n","o","t","h","e","r",".","m","d",")">>,
       <<" ","[","a","]","(","_","i","n","d","e","x",".","m","d",")">>,
       <<" ","[","a","]","(","f","o","l","d","e","r","/","_","i","n","d","e","x",".","m","d","#","i","n","d","e","x",")">>,
       <<" ","[","a","]","(","f","o","l","d","e","r",")">>,
       <<" ","[","a","]","(","/","a","n","o","t","h","e","r",")">>,
       <<" ","[","a","]","(","/","e","n","/","a","n","o","t","h","e","r","#","n","o","p","e",")">>,
       <<" ","[","a","]","(","{","{","<"," ","r","e","f"," ","\"","a","n","o","t","h","e","r","\""," ",">","}","}",")">>,
       <<" ","[","a","]","(","n","o","t","e","s","?","x",")">>,
       <<" ","[","a","]","(","l","o","c","k","e","d","/","s","e","c","r","e","t",")">>,
       <<" ","[","a","]","(","a","n","o","t","h","e","r",".","m","d","/","x",")">>,
       <<" ","[","a","]","(","%",")">>,
       <<" ","[","a","]","(","h","t","t","p",":","/","/","a",")">>,
       <<" ","[","a","]","(","h","t","t","p",":","/","/","a",":","b",")">>,
       <<" ","[","a","]","(","h","t","t","p",":","/","/","a","/","p",".","m","d",")">>,
       <<" ","[","a","]","(","h","t","t","p",":","/","/","a","/","_","i","n","d","e","x",".","m","d",")">>,
       <<" ","[","i","d","]",":"," ","a","n","o","t","h","e","r">>,
       <<" ","[","a","]","(",".",".","/","a","n","o","t","h","e","r","#","a","n","c","h","o","r",")">>,
       <<" ","[","a","]","(","a","n","o","t","h","e","r",".","m","d","%","2","F","x",")">>,
       <<" ","[","a","]","(","a","n","o","t","h","e","r",".","m","d","#","a","n","c","h","o","r",")">>,
       <<" ","[","a","]","(","/",".",".","/","a","n","o","t","h","e","r",")">>,
       <<" ","[","a","]","(","a","n","o","t","h","e","r",")"," ","[","b","]","(","a","n","o","t","h","e","r",")">> >>

\* The text of the page under test: a title, then n lines of the corpus from line i on.
RECURSIVE Lines(_, _)
Lines(i, n) == IF n = 0 THEN <<>> ELSE Corpus[i] \o <<"\n">> \o Lines(i + 1, n - 1)

Doc(i, n) == <<"#"," ","T","i","t","l","e","\n">> \o Lines(i, n)

Windows ==
    {<<1, 0>>} \cup {w \in (1..Len(Corpus)) \X (1..MaxLines) : w[1] + w[2] - 1 <= Len(Corpus)}

\* The folder that holds the page under test, test.md, and what else lies in
\* the tree: nothing, a folder named like the page next to it, or a folder
\* that cannot be read.
Layouts ==
    { <<RootDir, "plain">>,
      <<EnDir, "plain">>, <<EnDir, "shadow">>, <<EnDir, "locked">>,
      <<EnDir \o <<"/","f","o","l","d","e","r">>, "plain">>, <<EnDir \o <<"/","f","o","l","d","e","r">>, "shadow">>,
      <<<<"/","r","o","o","t","/","h","u","g","o","/","c","o","n","t","e","n","t","/","i","t">>, "plain">>, <<<<"/","r","o","o","t","/","h","u","g","o","/","c","o","n","t","e","n","t","/","i","t">>, "shadow">> }

LanguageFlags == { << <<"e","n">> >>, << <<"e","n">>, <<"i","t">> >> }

Tree(loc, doc, opt) ==
    LET base ==
            (<<"/","r","o","o","t">> :> DirNode) @@ (<<"/","r","o","o","t","/","h","u","g","o">> :> DirNode)
            @@ (<<"/","r","o","o","t","/","h","u","g","o","/","c","o","n","t","e","n","t">> :> DirNode) @@ (EnDir :> DirNode)
            @@ ((EnDir \o <<"/","a","n","o","t","h","e","r",".","m","d">>) :> FileNode(<<"#"," ","A","n","c","h","o","r","\n">>))
            @@ ((EnDir \o <<"/","f","o","l","d","e","r">>) :> DirNode)
            @@ ((EnDir \o <<"/","f","o","l","d","e","r","/","_","i","n","d","e","x",".","m","d">>) :> FileNode(<<"#"," ","I","n","d","e","x","\n">>))
            @@ ((EnDir \o <<"/","n","o","t","e","s">>) :> FileNode(<<"p","l","a","i","n","\n">>))
        subject == (loc :> DirNode) @@ ((loc \o <<"/","t","e","s","t",".","m","d">>) :> FileNode(doc))
        extra ==
            IF opt = "shadow"
            THEN ((loc \o <<"/","t","e","s","t">>) :> DirNode)
                 @@ ((loc \o <<"/","t","e","s","t","/","_","i","n","d","e","x",".","m","d">>) :> FileNode(<<"#"," ","T","i","t","l","e","\n">>))
            ELSE IF opt = "locked"
            THEN ((EnDir \o <<"/","l","o","c","k","e","d">>) :> LockedDirNode)
                 @@ ((EnDir \o <<"/","l","o","c","k","e","d","/","s","e","c","r","e","t",".","m","d">>) :> FileNode(<<"#"," ","S","e","c","r","e","t","\n">>))
            ELSE [x \in {} |-> DirNode]
    IN subject @@ extra @@ base

(***************************************************************************)
(* main                                                                    *)
(***************************************************************************)
Init ==
    \E lay \in Layouts, w \in Windows :
      LET tree == Tree(lay[1], Doc(w[1], w[2]), lay[2]) IN
        /\ root = RootDir
        /\ hugoFolder = HugoDir
        /\ hugoLanguages \in LanguageFlags
        /\ verbose \in BOOLEAN
        /\ fs = tree
        /\ pc = "readAll"
        /\ walkq = Walk(tree, RootDir)
        /\ heap = <<>>
        /\ pages = <<>>
        /\ pagesByPath = [x \in {} |-> 0]
        /\ cursor = 0
        /\ output = <<>>
        /\ exitCode = -1
        /\ ConcurrentInit

\* addPage(p): one new page object, appended to pages and registered by path.
addPage(p) ==
    /\ heap' = Append(heap, p)
    /\ pages' = Append(pages, Len(heap) + 1)
    /\ pagesByPath' = (p.path :> (Len(heap) + 1)) @@ pagesByPath

\* The walk function without its error branch: a path the walk could not read
\* is skipped.
WalkFnSkipsErrors ==
    /\ pc = "readAll"
    /\ walkq # <<>>
    /\ LET path == Head(walkq).path
       IN IF ~Head(walkq).err /\ Ext(path) = MdExt
          THEN addPage(readMarkdownPage(path))
          ELSE UNCHANGED <<heap, pages, pagesByPath>>
    /\ walkq' = Tail(walkq)
    /\ UNCHANGED <<concurrent, root, hugoFolder, hugoLanguages, verbose, fs, pc, cursor, output, exitCode>>

\* readAll: one call of the walk function. It never returns an error, so the
\* walk visits every path and readAll returns nil.
WalkFn ==
    /\ pc = "readAll"
    /\ walkq # <<>>
    /\ LET path == Head(walkq).path
       IN IF Head(walkq).err
          THEN addPage(newPageWithFatalError(path, Err("Error walking path %s: %v", path, <<>>)))
          ELSE IF Ext(path) = MdExt
          THEN addPage(readMarkdownPage(path))
          ELSE UNCHANGED <<heap, pages, pagesByPath>>
    /\ walkq' = Tail(walkq)
    /\ UNCHANGED <<concurrent, root, hugoFolder, hugoLanguages, verbose, fs, pc, cursor, output, exitCode>>

ReadAllReturn ==
    /\ pc = "readAll"
    /\ walkq = <<>>
    /\ pc' = "linkcheckAll"
    /\ cursor' = 1
    /\ UNCHANGED <<concurrent, root, hugoFolder, hugoLanguages, verbose, fs, walkq, heap, pages,
                   pagesByPath, output, exitCode>>

\* linkcheckAll: one turn of the loop over pages.
LinkcheckStep ==
    /\ pc = "linkcheckAll"
    /\ cursor <= Len(pages)
    /\ LET path == heap[pages[cursor]].path
       IN heap' = [heap EXCEPT ![pagesByPath[path]] = linkcheckPage(path)]
    /\ cursor' = cursor + 1
    /\ UNCHANGED <<concurrent, root, hugoFolder, hugoLanguages, verbose, fs, pc, walkq, pages,
                   pagesByPath, output, exitCode>>

\* linkcheckAll returns nil; main sorts the pages by path.
SortPages ==
    /\ pc = "linkcheckAll"
    /\ cursor > Len(pages)
    /\ pages' = SliceStable(<<>>, pages)
    /\ pc' = "report"
    /\ UNCHANGED <<concurrent, root, hugoFolder, hugoLanguages, verbose, fs, walkq, heap,
                   pagesByPath, cursor, output, exitCode>>

\* One printed line.
OutLine(kind, text, n1, n2, n3, err) ==
    [kind |-> kind, text |-> text, n1 |-> n1, n2 |-> n2, n3 |-> n3, err |-> err]

\* The lines main prints for the links of p.
LinkLines(p) ==
    LET line(l) == IF l.fatalError # NoError
                   THEN <<OutLine("ERROR", l.rawLink, l.lineNumber, 0, 0, l.fatalError)>>
                   ELSE IF verbose
                   THEN <<OutLine("OK", l.rawLink, l.lineNumber, 0, 0, NoError)>>
                   ELSE <<>>
        F[i \in 0..Len(p.links)] == IF i = 0 THEN <<>> ELSE F[i - 1] \o line(p.links[i])
    IN F[Len(p.links)]

ErrorCount(p) == Cardinality({i \in 1..Len(p.links) : p.links[i].fatalError # NoError})

\* What main prints for page p: nothing for a page without errors unless verbose.
PageLines(p) ==
    LET head == <<OutLine("PAGE", logPath(p), 0, 0, 0, NoError)>>
        s == IF p.fatalError # NoError
             THEN head \o <<OutLine("PAGE ERROR", <<>>, 0, 0, 0, p.fatalError)>>
             ELSE head \o <<OutLine("SUMMARY", <<>>, Len(p.links), ErrorCount(p), 0, NoError)>>
                       \o LinkLines(p)
        prints == p.fatalError # NoError \/ ErrorCount(p) > 0
    IN IF verbose \/ prints THEN s ELSE <<>>

TotalLinks(ps) ==
    LET F[i \in 0..Len(ps)] == IF i = 0 THEN 0 ELSE F[i - 1] + Len(heap[ps[i]].links)
    IN F[Len(ps)]

TotalAnchors(ps) ==
    LET F[i \in 0..Len(ps)] == IF i = 0 THEN 0 ELSE F[i - 1] + Len(heap[ps[i]].anchors)
    IN F[Len(ps)]

RECURSIVE ReportLines(_)
ReportLines(ps) ==
    IF Len(ps) = 0 THEN <<>> ELSE PageLines(heap[ps[1]]) \o ReportLines(Tail(ps))

\* The report loop of main and the line of totals.
Report ==
    /\ pc = "report"
    /\ output' = ReportLines(pages)
                 \o <<OutLine("TOTAL", <<>>, Len(pages),
                              TotalLinks(pages), TotalAnchors(pages), NoError)>>
    /\ pc' = "return"
    /\ UNCHANGED <<concurrent, root, hugoFolder, hugoLanguages, verbose, fs, walkq, heap, pages,
                   pagesByPath, cursor, exitCode>>

\* main returns after the report: the process exits with status 0.
Exit ==
    /\ pc = "return"
    /\ exitCode' = 0
    /\ pc' = "done"
    /\ UNCHANGED <<concurrent, root, hugoFolder, hugoLanguages, verbose, fs, walkq, heap, pages,
                   pagesByPath, cursor, output>>

Next == WalkFn \/ ReadAllReturn \/ LinkcheckStep \/ SortPages \/ Report \/ Exit

Spec == Init /\ [][Next]_vars

(***************************************************************************)
(* What the properties below speak of.                                     *)
(***************************************************************************)
PageIds == 1..Len(heap)
LinkIds(i) == 1..Len(heap[i].links)

\* linkcheckPage has returned for page object i.
Checked(i) == pc # "readAll" /\ (pc = "linkcheckAll" => i < cursor)

\* A link with a target inside the tree: a URL without scheme.
InTree(l) == ~l.URL.nil /\ l.URL.Scheme = <<>>

\* A file or a directory exists at path.
FileExists(path) == Stat(path) \in {"dir", "file"}

AnchorSet(p) == {p.anchors[k] : k \in 1..Len(p.anchors)}

\* The raw link parses as a URL without a scheme, or with one.
ParsesWithoutScheme(raw) == Parse(raw).err = "" /\ Parse(raw).url.Scheme = <<>>
ParsesWithScheme(raw) == Parse(raw).err = "" /\ Parse(raw).url.Scheme # <<>>

\* The raw link is a ref or refLink shortcode.
IsShortcode(raw) == refRx(raw).ok /\ refRx(raw).tag \in { <<"r","e","f">>, <<"r","e","f","L","i","n","k">> }

\* The part of a raw link before the first separator, and the rest.
PathPart(raw) == splitPathAndFragment(raw).path
FragmentPart(raw) == splitPathAndFragment(raw).fragment

AnyFatalError ==
    \E i \in PageIds :
        \/ heap[i].fatalError # NoError
        \/ \E k \in LinkIds(i) : heap[i].links[k].fatalError # NoError

(***************************************************************************)
(* C1                                                                      *)
(***************************************************************************)
\* C1: the exit status of the process is non-zero if and only if, after
\* discovery and validation, a page or a link carries a fatal error.
C1_ExitStatus == pc = "done" => ((exitCode # 0) <=> AnyFatalError)

C3_MissingTargetReported ==
    \A i \in PageIds : \A k \in LinkIds(i) :
        LET l == heap[i].links[k]
        IN (/\ Checked(i)
            /\ heap[i].fatalError = NoError
            /\ InTree(l)
            /\ ~FileExists(l.URL.Path))
           => l.fatalError = Err("the link resolves to %s which does not exist",
                                 TrimPrefix(l.URL.Path, root), <<>>)

(***************************************************************************)
(* C4                                                                      *)
(***************************************************************************)
\* The fatal error of linkcheckPage for fragment f missing on target page t:
\* it names the fragment and the page, by its language and its path in it.
MissingAnchorError(f, t) ==
    Err("%s%s does exists in %s", <<"#">> \o f, <<"<","s","i","t","e",">","/","c","o","n","t","e","n","t","/">> \o t.hugoLanguage \o t.hugoPath)

C5_SchemeLinkAccepted ==
    \A i \in PageIds : \A k \in LinkIds(i) :
        LET l == heap[i].links[k]
        IN getScheme(l.rawLink).scheme # <<>>
           => /\ l.fatalError = NoError
              /\ ~l.URL.nil
              /\ l.URL = Parse(l.rawLink).url

\* C5, amended: a link whose raw string parses as a URL with a scheme is
\* recorded with that URL and without fatal error, on every page, and
\* linkcheckPage sets none.
C5_ParsedSchemeLinkAccepted ==
    \A i \in PageIds : \A k \in LinkIds(i) :
        LET l == heap[i].links[k]
        IN ParsesWithScheme(l.rawLink)
           => /\ l.fatalError = NoError
              /\ ~l.URL.nil
              /\ l.URL = Parse(l.rawLink).url
              /\ l.URL.Scheme = getScheme(l.rawLink).scheme

\* A checked page outside the hugo website holds a link with a scheme.
C5_Witness ==
    \E i \in PageIds : \E k \in LinkIds(i) :
        LET l == heap[i].links[k]
        IN /\ Checked(i)
           /\ ~heap[i].isHugoPage
           /\ ParsesWithScheme(l.rawLink)
           /\ l.URL.Path # <<>>
           /\ l.fatalError = NoError

(***************************************************************************)
(* C6                                                                      *)
(***************************************************************************)
\* C6: on a page that is not part of the localized content tree, every link
\* that parses as a URL without scheme is recorded with the fatal error that a
\* scheme is required, and without target.
C6_SchemeRequired ==
    \A i \in PageIds : \A k \in LinkIds(i) :
        LET l == heap[i].links[k]
        IN (~heap[i].isHugoPage /\ ParsesWithoutScheme(l.rawLink))
           => /\ l.fatalError = Err("scheme is required on links outside the hugo website",
                                    <<>>, <<>>)
              /\ l.URL.nil

\* A page outside the hugo website holds a link without scheme.
C6_Witness ==
    \E i \in PageIds : \E k \in LinkIds(i) :
        LET l == heap[i].links[k]
        IN /\ ~heap[i].isHugoPage
           /\ ParsesWithoutScheme(l.rawLink)
           /\ l.fatalError.msg = "scheme is required on links outside the hugo website"

(***************************************************************************)
(* C7                                                                      *)
(***************************************************************************)
MdExtensionError(raw) ==
    Err("links must not have .md extension, use \"%s%s\" instead",
        TrimSuffix(PathPart(raw), MdExt), FragmentPart(raw))

IndexError(raw) ==
    Err("links must not end with _index.md, use \"%s/\" instead", Dir(PathPart(raw)), <<>>)

\* C8, as stated: every link whose path has the base name _index.md is
\* recorded with the fatal error that links must not end with _index.md,
\* which names the containing directory.
C8_IndexRejected ==
    \A i \in PageIds : \A k \in LinkIds(i) :
        LET l == heap[i].links[k]
        IN Base(PathPart(l.rawLink)) = IndexMd => l.fatalError = IndexError(l.rawLink)

\* C8, amended: on a localized page, every link that parses as a URL without
\* scheme, is no ref or refLink shortcode, and whose path has the base name
\* _index.md is recorded with the fatal error that links must not end with
\* _index.md, which names the containing directory.
C8_IndexRejectedOnLocalizedPage ==
    \A i \in PageIds : \A k \in LinkIds(i) :
        LET l == heap[i].links[k]
        IN (/\ heap[i].isHugoPage
            /\ ParsesWithoutScheme(l.rawLink)
            /\ ~IsShortcode(l.rawLink)
            /\ Base(PathPart(l.rawLink)) = IndexMd)
           => l.fatalError = IndexError(l.rawLink) /\ l.URL.nil

\* A localized page holds a link to the _index.md of a folder.
C8_Witness ==
    \E i \in PageIds : \E k \in LinkIds(i) :
        LET l == heap[i].links[k]
        IN /\ heap[i].isHugoPage
           /\ ParsesWithoutScheme(l.rawLink)
           /\ Base(PathPart(l.rawLink)) = IndexMd
           /\ Dir(PathPart(l.rawLink)) = <<"f","o","l","d","e","r">>
           /\ l.fatalError = IndexError(l.rawLink)

(***************************************************************************)
(* C9                                                                      *)
(***************************************************************************)
\* C9: on a localized page, a link with an empty path and a fragment is
\* resolved by addLink to the absolute path of the page itself with that
\* fragment, whatever lies next to the page.
C9_FragmentTargetsOwnPage ==
    \A i \in PageIds : \A k \in LinkIds(i) :
        LET l == heap[i].links[k]
        IN (/\ heap[i].isHugoPage
            /\ heap[i].fatalError = NoError
            /\ ParsesWithoutScheme(l.rawLink)
            /\ PathPart(l.rawLink) = <<>>
            /\ Len(FragmentPart(l.rawLink)) > 1)
           => /\ ~l.URL.nil
              /\ l.URL.Path = heap[i].path
              /\ anchorSeparator \o l.URL.Fragment = FragmentPart(l.rawLink)

(***************************************************************************)
(* C10                                                                     *)
(***************************************************************************)
\* <root>/<hugoFolder>/content/L/<dir of P>/R for a relative R, and
\* <root>/<hugoFolder>/content/L/R for an absolute one.
TargetOf(p, R) ==
    LET languageDir == root \o Slash \o hugoFolder \o <<"/","c","o","n","t","e","n","t","/">> \o p.hugoLanguage
    IN IF IsAbs(R) THEN Clean(languageDir \o R)
       ELSE Clean(languageDir \o Dir(p.hugoPath) \o Slash \o R)

\* R, taken from the folder of P, never climbs above the folder of L.
StaysBelowLanguage(p, R) ==
    LET languageDir == root \o Slash \o hugoFolder \o <<"/","c","o","n","t","e","n","t","/">> \o p.hugoLanguage
    IN TargetOf(p, R) = languageDir \o (IF IsAbs(R) THEN Clean(R)
                                        ELSE Clean(Dir(p.hugoPath) \o Slash \o R))

\* Link l of page p is resolved to target.md, with the fragment of the raw link.
ResolvesTo(p, l, target) ==
    /\ ~l.URL.nil
    /\ l.URL.Scheme = <<>>
    /\ l.URL.Path = target \o MdExt
    /\ l.URL.RawQuery = <<>>
    /\ IF FragmentPart(l.rawLink) = <<>> THEN l.URL.Fragment = <<>>
       ELSE anchorSeparator \o l.URL.Fragment = FragmentPart(l.rawLink)

\* C10, as stated: on a localized page with language L and path P, a link
\* without scheme and without extension whose path part R names no directory
\* resolves to <dir of P>/R.md, or to R.md for an absolute R, below the
\* folder of L, with its fragment. Links with a question mark or a percent
\* sign, which a URL reads as a query and as an escape, are left aside.
C10_PlainLinkResolves ==
    \A i \in PageIds : \A k \in LinkIds(i) :
        LET l == heap[i].links[k]
            R == PathPart(l.rawLink)
        IN (/\ heap[i].isHugoPage
            /\ heap[i].hugoLanguage # <<>>
            /\ ParsesWithoutScheme(l.rawLink)
            /\ ~IsShortcode(l.rawLink)
            /\ R # <<>>
            /\ Ext(R) = <<>>
            /\ ~Contains(l.rawLink, "?")
            /\ ~Contains(l.rawLink, "%")
            /\ Stat(TargetOf(heap[i], R)) # "dir")
           => ResolvesTo(heap[i], l, TargetOf(heap[i], R))

\* C10, amended: the same for a link whose path part R neither names a
\* directory, nor leads through a regular file, nor climbs above the folder of L.
C10_PlainLinkBelowFoldersResolves ==
    \A i \in PageIds : \A k \in LinkIds(i) :
        LET l == heap[i].links[k]
            R == PathPart(l.rawLink)
        IN (/\ heap[i].isHugoPage
            /\ heap[i].hugoLanguage # <<>>
            /\ ParsesWithoutScheme(l.rawLink)
            /\ ~IsShortcode(l.rawLink)
            /\ R # <<>>
            /\ Ext(R) = <<>>
            /\ ~Contains(l.rawLink, "?")
            /\ ~Contains(l.rawLink, "%")
            /\ StaysBelowLanguage(heap[i], R)
            /\ Stat(TargetOf(heap[i], R)) \in {"ENOENT", "file"})
           => ResolvesTo(heap[i], l, TargetOf(heap[i], R))

\* A page in a folder of its language holds a relative link with a fragment
\* that leaves the folder.
C10_Witness ==
    \E i \in PageIds : \E k \in LinkIds(i) :
        LET l == heap[i].links[k]
            R == PathPart(l.rawLink)
        IN /\ heap[i].isHugoPage
           /\ heap[i].hugoLanguage # <<>>
           /\ Dir(heap[i].hugoPath) # Slash
           /\ ~IsAbs(R)
           /\ HasPrefix(R, DotDot)
           /\ FragmentPart(l.rawLink) # <<>>
           /\ ResolvesTo(heap[i], l, TargetOf(heap[i], R))
           /\ l.URL.Path = EnDir \o <<"/","a","n","o","t","h","e","r",".","m","d">>

(***************************************************************************)
(* C11                                                                     *)
(***************************************************************************)
\* <root>/<hugoFolder>/content/L/, the content directory of language L.
LanguageRoot(L) == root \o Slash \o hugoFolder \o <<"/","c","o","n","t","e","n","t","/">> \o L \o Slash

\* C11: every link without scheme on a localized page with language L that
\* addLink resolves without error, whatever its path part, has a resolved
\* target path below <root>/<hugoFolder>/content/L/.
C11_TargetBelowLanguage ==
    \A i \in PageIds : \A k \in LinkIds(i) :
        LET l == heap[i].links[k]
        IN (/\ heap[i].isHugoPage
            /\ heap[i].hugoLanguage # <<>>
            /\ InTree(l))
           => HasPrefix(l.URL.Path, LanguageRoot(heap[i].hugoLanguage))

(***************************************************************************)
(* C12                                                                     *)
(***************************************************************************)
\* The path part of raw, or the file name of page p without its extension
\* when raw is a fragment only.
PathOrSelf(p, raw) ==
    IF PathPart(raw) = <<>> THEN TrimSuffix(Base(p.hugoPath), MdExt) ELSE PathPart(raw)

\* The resolved path of the link raw of page p, before a suffix is appended.
ResolvedPath(p, raw) ==
    Join(<<ContentDir, p.hugoLanguage,
           IF IsAbs(PathOrSelf(p, raw)) THEN PathOrSelf(p, raw)
           ELSE Join(<<Dir(p.hugoPath), PathOrSelf(p, raw)>>)>>)

\* The resolved path t with the index file name appended when it names a
\* directory and the markdown extension when it does not, then the fragment.
WithSuffix(t, fragment) ==
    (IF Stat(t) = "dir" THEN t \o Slash \o IndexMd ELSE t \o MdExt) \o fragment

\* addLink reaches the resolution of the link k of page i: the page is
\* localized, the link has no scheme and parseLink accepts it.
ResolvesInTree(i, k) ==
    /\ heap[i].isHugoPage
    /\ heap[i].hugoLanguage # <<>>
    /\ ParsesWithoutScheme(heap[i].links[k].rawLink)
    /\ parseLink(heap[i].links[k].rawLink).err = NoError

\* C12, as stated: the URL of a resolved in-tree link is the resolved path
\* with _index.md appended if it names an existing directory, and with .md
\* appended if it names a non-directory or nothing at all.
C12_IndexOrExtension ==
    \A i \in PageIds : \A k \in LinkIds(i) :
        LET l == heap[i].links[k]
            t == ResolvedPath(heap[i], l.rawLink)
        IN ResolvesInTree(i, k)
           => /\ ~l.URL.nil
              /\ l.URL = Parse(WithSuffix(t, FragmentPart(l.rawLink))).url

\* C12, amended: the same when the resolved path names a directory, a regular
\* file or nothing below existing directories; a resolved path that leads
\* through a regular file gets neither suffix, the link gets a fatal error.
C12_IndexOrExtensionUnlessStatFails ==
    \A i \in PageIds : \A k \in LinkIds(i) :
        LET l == heap[i].links[k]
            t == ResolvedPath(heap[i], l.rawLink)
        IN ResolvesInTree(i, k)
           => IF Stat(t) \in {"dir", "file", "ENOENT"}
              THEN /\ ~l.URL.nil
                   /\ l.URL = Parse(WithSuffix(t, FragmentPart(l.rawLink))).url
              ELSE /\ l.URL.nil
                   /\ l.fatalError = Err("error checking if path is a directory: not a directory",
                                         t, <<>>)

\* One page holds a link to a directory, resolved to its index file, and a
\* link to a non-directory, resolved to a markdown file.
C12_Witness ==
    \E i \in PageIds : \E k, n \in LinkIds(i) :
        /\ ResolvesInTree(i, k)
        /\ ResolvesInTree(i, n)
        /\ Stat(ResolvedPath(heap[i], heap[i].links[k].rawLink)) = "dir"
        /\ heap[i].links[k].URL.Path
               = ResolvedPath(heap[i], heap[i].links[k].rawLink) \o <<"/","_","i","n","d","e","x",".","m","d">>
        /\ Stat(ResolvedPath(heap[i], heap[i].links[n].rawLink)) # "dir"
        /\ heap[i].links[n].URL.Path
               = ResolvedPath(heap[i], heap[i].links[n].rawLink) \o MdExt

(***************************************************************************)
(* Test_newPage: newPage called on one path, with the flags set.           *)
(***************************************************************************)
\* The paths newPage is called on.
NewPagePaths ==
    { <<"/","r","o","o","t","/","t","e","s","t",".","m","d">>,
      <<"/","r","o","o","t","/","h","u","g","o","/","c","o","n","t","e","n","t","/","e","n","/","t","e","s","t",".","m","d">>,
      <<"/","r","o","o","t","/","h","u","g","o","/","c","o","n","t","e","n","t","/","e","n","/","f","o","l","d","e","r","/","t","e","s","t",".","m","d">>,
      <<"/","r","o","o","t","/","h","u","g","o","/","c","o","n","t","e","n","t","/","i","t","/","t","e","s","t",".","m","d">>,
      <<"/","r","o","o","t","/","h","u","g","o","/","c","o","n","t","e","n","t","/","t","e","s","t",".","m","d">>,
      <<"/","r","o","o","t","/","h","u","g","o","/","c","o","n","t","e","n","t","/","e","n",".","m","d">>,
      <<"/","r","o","o","t","/","h","u","g","o","/","c","o","n","t","e","n","t","/","e","n","x","/","t","e","s","t",".","m","d">>,
      <<"/","r","o","o","t","/","h","u","g","o","/","c","o","n","t","e","n","t","x","/","e","n","/","t","e","s","t",".","m","d">>,
      <<"/","r","o","o","t","/","h","u","g","o","x","/","c","o","n","t","e","n","t","/","e","n","/","t","e","s","t",".","m","d">> }

\* The values of the flag --hugo-languages.
NewPageLanguages ==
    { <<>>, << <<"e","n">> >>, << <<"i","t">> >>, << <<"e","n">>, <<"i","t">> >>, << <<"i","t">>, <<"e","n">> >>,
      << <<"e","n">>, <<"e","n","x">> >>, << <<"e","n","x">>, <<"e","n">> >> }

\* setFlags("/root", "hugo", languages), and the path of one row of the table.
InitNewPage ==
    \E path \in NewPagePaths, languages \in NewPageLanguages :
        /\ root = RootDir
        /\ hugoFolder = HugoDir
        /\ hugoLanguages = languages
        /\ verbose = FALSE
        /\ fs = [x \in {} |-> DirNode]
        /\ pc = "Test_newPage"
        /\ walkq = <<[path |-> path, err |-> FALSE]>>
        /\ heap = <<>>
        /\ pages = <<>>
        /\ pagesByPath = [x \in {} |-> 0]
        /\ cursor = 0
        /\ output = <<>>
        /\ exitCode = -1
        /\ ConcurrentInit

\* page := newPage(tt.path)
TestNewPage ==
    /\ pc = "Test_newPage"
    /\ heap' = <<newPage(Head(walkq).path)>>
    /\ pc' = "done"
    /\ UNCHANGED <<concurrent, root, hugoFolder, hugoLanguages, verbose, fs, walkq, pages,
                   pagesByPath, cursor, output, exitCode>>

SpecNewPage == InitNewPage /\ [][TestNewPage]_vars

(***************************************************************************)
(* C13                                                                     *)
(***************************************************************************)
\* <root>/<hugoFolder>/content/, the content directory with its separator.
ContentRoot == root \o Slash \o hugoFolder \o Slash \o contentFolder \o Slash

\* C13: newPage marks a page as localized content if and only if its path
\* lies inside the content directory, that is, starts with
\* <root>/<hugoFolder>/content/; sharing the name of the content directory
\* as a prefix is not enough.
C13_LocalizedIffInsideContent ==
    \A i \in PageIds : heap[i].isHugoPage <=> HasPrefix(heap[i].path, ContentRoot)

(***************************************************************************)
(* C14                                                                     *)
(***************************************************************************)
\* The configured languages whose directory <contentRoot>/L/ contains path.
ContainingLanguages(path) ==
    {hugoLanguages[n] : n \in {m \in 1..Len(hugoLanguages) :
                                  HasPrefix(path, ContentRoot \o hugoLanguages[m] \o Slash)}}

\* C14: for a file inside the content directory, newPage sets the language to
\* the configured language whose directory contains the file, and the
\* relative path so that the directory joined with it is the path of the file,
\* whatever the order of the flag; when no configured language directory
\* contains the file, the page gets the classification error with the path
\* and the list of languages, and no language.
C14_LanguageOfContainingDirectory ==
    \A i \in PageIds :
        HasPrefix(heap[i].path, ContentRoot)
        => IF ContainingLanguages(heap[i].path) # {}
           THEN /\ heap[i].hugoLanguage \in ContainingLanguages(heap[i].path)
                /\ Join(<<ContentRoot \o heap[i].hugoLanguage, heap[i].hugoPath>>) = heap[i].path
                /\ heap[i].fatalError = NoError
           ELSE /\ heap[i].hugoLanguage = <<>>
                /\ heap[i].fatalError =
                       Err("hugo page %s does not belong to one of the know languages: %s",
                           TrimPrefix(heap[i].path, ContentDir),
                           StringsJoin(hugoLanguages, <<","," ">>))

(***************************************************************************)
(* C15                                                                     *)
(***************************************************************************)
\* The regular files of the tree with the markdown extension.
MarkdownFiles == {path \in DOMAIN fs : ~fs[path].isDir /\ Ext(path) = MdExt}

\* The places of the page list that hold a page with this path.
PagesWithPath(path) == {n \in 1..Len(pages) : heap[pages[n]].path = path}

\* The paths of the page list.
PagePaths == {heap[pages[n]].path : n \in 1..Len(pages)}

\* The directories the walk cannot read, and the paths below one of them.
Unreadable == {path \in DOMAIN fs : fs[path].isDir /\ fs[path].noread}
Reached == {path \in DOMAIN fs : \A d \in Unreadable : ~HasPrefix(path, d \o Slash)}

\* C15: after readAll has returned, the pages of the registry are exactly the
\* files under root with the markdown extension, each exactly once, and at no
\* time is a path without the markdown extension turned into a page.
C15_PagesAreMarkdownFiles ==
    /\ PagePaths \subseteq MarkdownFiles
    /\ pc # "readAll" => /\ PagePaths = MarkdownFiles
                         /\ \A path \in PagePaths : Cardinality(PagesWithPath(path)) = 1

\* C15, amended: after readAll has returned, the pages of the registry are
\* exactly the paths with the markdown extension that the walk reaches and the
\* paths the walk could not read, each exactly once; a path the walk could not
\* read carries the walk error, and what lies below it is not a page.
C15_PagesAreReachedMarkdownOrWalkErrors ==
    /\ PagePaths \subseteq {path \in Reached : Ext(path) = MdExt} \cup Unreadable
    /\ pc # "readAll" =>
          /\ PagePaths = {path \in Reached : Ext(path) = MdExt} \cup Unreadable
          /\ \A path \in PagePaths : Cardinality(PagesWithPath(path)) = 1
          /\ \A path \in Unreadable :
                heap[pagesByPath[path]].fatalError = Err("Error walking path %s: %v", path, <<>>)

\* readAll has returned with several markdown files and an unreadable
\* directory that hides one more.
C15_Witness ==
    /\ pc = "linkcheckAll"
    /\ Cardinality(PagePaths \cap MarkdownFiles) >= 3
    /\ PagePaths \cap Unreadable # {}
    /\ MarkdownFiles \ PagePaths # {}

(***************************************************************************)
(* addPage called on a sequence of pages, as readAll calls it for one path *)
(* after the other, here with paths that may come again.                   *)
(***************************************************************************)
MaxCalls == 3

AddPagePaths == { <<"/","r","o","o","t","/","a",".","m","d">>, <<"/","r","o","o","t","/","b",".","m","d">>, <<"/","r","o","o","t","/","h","u","g","o","/","c","o","n","t","e","n","t","/","e","n","/","c",".","m","d">> }

\* The sequences of at most n paths.
RECURSIVE CallsUpTo(_)
CallsUpTo(n) ==
    IF n = 0 THEN {<<>>}
    ELSE CallsUpTo(n - 1) \cup
         {Append(q, [path |-> path, err |-> FALSE]) :
              q \in {c \in CallsUpTo(n - 1) : Len(c) = n - 1}, path \in AddPagePaths}

InitAddPage ==
    /\ root = RootDir
    /\ hugoFolder = HugoDir
    /\ hugoLanguages = << <<"e","n">> >>
    /\ verbose = FALSE
    /\ fs = [x \in {} |-> DirNode]
    /\ pc = "addPage"
    /\ walkq \in CallsUpTo(MaxCalls)
    /\ heap = <<>>
    /\ pages = <<>>
    /\ pagesByPath = [x \in {} |-> 0]
    /\ cursor = 0
    /\ output = <<>>
    /\ exitCode = -1
    /\ ConcurrentInit

\* addPage(newPage(path)) for the next path.
CallAddPage ==
    /\ pc = "addPage"
    /\ walkq # <<>>
    /\ addPage(newPage(Head(walkq).path))
    /\ walkq' = Tail(walkq)
    /\ UNCHANGED <<concurrent, root, hugoFolder, hugoLanguages, verbose, fs, pc, cursor, output, exitCode>>

SpecAddPage == InitAddPage /\ [][CallAddPage]_vars

C17_OneLinkPerRawString ==
    \A i \in PageIds : \A k \in LinkIds(i) : \A n \in LinkIds(i) :
        heap[i].links[k].rawLink = heap[i].links[n].rawLink => k = n

(***************************************************************************)
(* readMarkdownPage called on one file.                                    *)
(***************************************************************************)
TestPage == <<"/","r","o","o","t","/","t","e","s","t",".","m","d">>

\* Lines with and without a header.
HeaderLines ==
    { <<"#"," ","M","y"," ","T","i","t","l","e">>, <<"#","#"," ","A","/","B"," ","c">>, <<"#","x">>, <<"#"," ","S","a","m","e">>, <<"#">>, <<"t","e","x","t">> }

\* Lines with links: what stands before the first bracket, the links, and
\* what stands after them.
LinesWithLinks ==
    { before \o links \o after :
        before \in { <<>>, <<" ">>, <<"!">>, <<" ","!">>, <<"x">> },
        links \in { <<"[","a","]","(","t",")">>, <<"[","i","d","]",":"," ","t">>, <<"[","a","]","(","t",")","[","b","]","(","u",")">>, <<"[","a","]","(","t",")"," ","[","b","]","(","u",")">>,
                    <<"[","a","]","(","t",")"," ","!","[","b","]","(","u",")">> },
        after \in { <<>>, <<" ","e","n","d">> } }

\* The contents of the file: two lines with or without a header, or one line
\* with links.
PageBodies ==
    { first \o <<"\n">> \o second \o <<"\n">> : first \in HeaderLines, second \in HeaderLines }
    \cup LinesWithLinks

InitReadMarkdownPage ==
    \E body \in PageBodies :
        /\ root = RootDir
        /\ hugoFolder = HugoDir
        /\ hugoLanguages = << <<"e","n">> >>
        /\ verbose = FALSE
        /\ fs = (RootDir :> DirNode) @@ (TestPage :> FileNode(body))
        /\ pc = "readMarkdownPage"
        /\ walkq = <<[path |-> TestPage, err |-> FALSE]>>
        /\ heap = <<>>
        /\ pages = <<>>
        /\ pagesByPath = [x \in {} |-> 0]
        /\ cursor = 0
        /\ output = <<>>
        /\ exitCode = -1
        /\ ConcurrentInit

\* p := readMarkdownPage(path)
CallReadMarkdownPage ==
    /\ pc = "readMarkdownPage"
    /\ heap' = <<readMarkdownPage(Head(walkq).path)>>
    /\ pc' = "done"
    /\ UNCHANGED <<concurrent, root, hugoFolder, hugoLanguages, verbose, fs, walkq, pages,
                   pagesByPath, cursor, output, exitCode>>

SpecReadMarkdownPage == InitReadMarkdownPage /\ [][CallReadMarkdownPage]_vars

\* The page objects whose file was read, and the lines of that file.
ReadPageIds ==
    {i \in PageIds : /\ heap[i].path \in DOMAIN fs
                     /\ ~fs[heap[i].path].isDir
                     /\ ~HasPrefix(heap[i].fatalError.msg, "Error")}
FileLines(i) == Split(fs[heap[i].path].content, "\n")

(***************************************************************************)
(* C18                                                                     *)
(***************************************************************************)
\* An inline link [text](target) starts at index i of the line.
InlineLinkAt(line, i) ==
    LET close(j) ==
            LET paren(k) == /\ j <= Len(line) /\ j >= i + 2
                            /\ j + 1 <= Len(line) /\ line[j + 1] = "("
                            /\ k <= Len(line) /\ k >= j + 3
            IN paren(Find(line, j + 2, ")"))
    IN line[i] = "[" /\ close(Find(line, i + 1, "]"))

InlineTargetAt(line, i) ==
    LET target(j) == SubSeq(line, j + 2, Find(line, j + 2, ")") - 1)
    IN target(Find(line, i + 1, "]"))

\* The link that starts at index i is an image link.
ImageAt(line, i) == i > 1 /\ line[i - 1] = "!"

InlineTargets(line) ==
    {InlineTargetAt(line, i) :
         i \in {x \in 1..Len(line) : InlineLinkAt(line, x) /\ ~ImageAt(line, x)}}

ImageTargets(line) ==
    {InlineTargetAt(line, i) :
         i \in {x \in 1..Len(line) : InlineLinkAt(line, x) /\ ImageAt(line, x)}}

\* The target of a reference-style definition [id]: target that makes up the line.
ReferenceTargets(line) ==
    LET def(t) ==
            LET target(j) ==
                    IF /\ j <= Len(t) /\ j >= 3 /\ j + 1 <= Len(t) /\ t[j + 1] = ":"
                       /\ TrimSpace(SubSeq(t, j + 2, Len(t))) # <<>>
                    THEN {TrimSpace(SubSeq(t, j + 2, Len(t)))}
                    ELSE {}
            IN IF t # <<>> /\ t[1] = "[" THEN target(Find(t, 2, "]")) ELSE {}
    IN def(TrimSpace(line))

\* The raw strings of the links of page object i found on line n.
RawLinksOfLine(i, n) ==
    {heap[i].links[k].rawLink : k \in {x \in LinkIds(i) : heap[i].links[x].lineNumber = n}}

\* C18: readMarkdownLineLinks returns the target of every inline link of the
\* line that is no image link, wherever on the line the link starts, and the
\* target of every reference-style definition that stands on its own line,
\* and the target of no image link.
C18_EveryLinkOfTheLine ==
    \A i \in ReadPageIds : \A n \in 1..Len(FileLines(i)) :
        /\ InlineTargets(FileLines(i)[n]) \subseteq RawLinksOfLine(i, n)
        /\ ReferenceTargets(FileLines(i)[n]) \subseteq RawLinksOfLine(i, n)
        /\ \A t \in ImageTargets(FileLines(i)[n]) \ InlineTargets(FileLines(i)[n]) :
              t \notin RawLinksOfLine(i, n)

(***************************************************************************)
(* C19                                                                     *)
(***************************************************************************)
\* The text of a header line: what follows its leading number signs.
HeaderText(line) ==
    IF line # <<>> /\ line[1] = "#"
    THEN TrimSpace(SubSeq(line, RunEnd(line, 1, "#"), Len(line)))
    ELSE <<>>

\* The anchor of a header text: lowercased, spaces to dashes, slashes removed.
Slug(text) == ReplaceAll(ReplaceAll(ToLower(text), " ", <<"-">>), "/", <<>>)

\* The lines of the file of page object i that are headers with this anchor.
HeadersWithSlug(i, slug) ==
    {n \in 1..Len(FileLines(i)) :
        /\ HeaderText(FileLines(i)[n]) # <<>>
        /\ Slug(HeaderText(FileLines(i)[n])) = slug}

\* C19: every header line, one or more leading number signs followed by a
\* text, yields exactly one anchor, the text lowercased with every space
\* replaced by a dash and every slash removed; repeated headers yield
\* repeated anchors.
C19_OneAnchorPerHeader ==
    \A i \in ReadPageIds : \A n \in 1..Len(FileLines(i)) :
        HeaderText(FileLines(i)[n]) # <<>>
        => Cardinality({k \in 1..Len(heap[i].anchors) :
                           heap[i].anchors[k] = Slug(HeaderText(FileLines(i)[n]))})
           = Cardinality(HeadersWithSlug(i, Slug(HeaderText(FileLines(i)[n]))))

(***************************************************************************)
(* C20                                                                     *)
(***************************************************************************)
\* The calls of addLink that readMarkdownPage makes for these lines: the raw
\* strings, in order.
RECURSIVE AddLinkCalls(_)
AddLinkCalls(lines) ==
    IF Len(lines) = 0 THEN <<>>
    ELSE readMarkdownLineLinks(lines[1]) \o AddLinkCalls(Tail(lines))

\* The link has a target and no error, or an error and no target.
TargetOrError(l) ==
    \/ ~l.URL.nil /\ l.fatalError = NoError
    \/ l.URL.nil /\ l.fatalError # NoError

\* C20: after addLink has returned, and before linkcheckPage looks at the
\* page, the link it appended has exactly one of a target without error and
\* an error without target, and every call of addLink has appended exactly
\* one link.
C20_TargetOrErrorPerCall ==
    \A i \in PageIds :
        ~Checked(i)
        => /\ \A k \in LinkIds(i) : TargetOrError(heap[i].links[k])
           /\ i \in ReadPageIds
              => [k \in LinkIds(i) |-> heap[i].links[k].rawLink] = AddLinkCalls(FileLines(i))

\* A page that linkcheckPage has not looked at, with a link that has a target
\* and a link that has an error.
C20_Witness ==
    \E i \in ReadPageIds :
        /\ ~Checked(i)
        /\ Len(AddLinkCalls(FileLines(i))) >= 2
        /\ \E k \in LinkIds(i) : ~heap[i].links[k].URL.nil /\ heap[i].links[k].fatalError = NoError
        /\ \E k \in LinkIds(i) : heap[i].links[k].URL.nil /\ heap[i].links[k].fatalError # NoError

(***************************************************************************)
(* C21                                                                     *)
(***************************************************************************)
\* C21: linkcheckPage evaluates no link of a page that carries a page-level
\* fatal error: in every step the links of such a page stay exactly as they
\* were.
C21_LinksOfFailedPageUntouched ==
    [][\A i \in PageIds :
          heap[i].fatalError # NoError => heap'[i].links = heap[i].links]_vars

\* linkcheckPage has returned for a page with a page-level fatal error that
\* holds a link the check would have marked.
C21_Witness ==
    \E i \in PageIds :
        /\ Checked(i)
        /\ heap[i].fatalError # NoError
        /\ \E k \in LinkIds(i) :
              /\ heap[i].links[k].fatalError = NoError
              /\ linkcheckLink(heap[i].links[k]) # heap[i].links[k]

(***************************************************************************)
(* C22                                                                     *)
(***************************************************************************)
\* The page objects of the registry by ascending path, whatever the order
\* they were found in.
PagesByAscendingPath ==
    LET Objects(paths) == [n \in 1..Len(paths) |-> pagesByPath[paths[n]]]
    IN Objects(SortNames(DOMAIN pagesByPath))

\* C22: the report lists the pages in ascending order of path, whatever the
\* order they were discovered and validated in: what main prints is the
\* report of the registry taken by ascending path, a function of the tree.
C22_ReportByAscendingPath ==
    /\ pc \in {"report", "return", "done"} =>
          /\ pages = PagesByAscendingPath
          /\ \A m \in 1..Len(pages) : \A n \in 1..Len(pages) :
                m < n => StrLess(heap[pages[m]].path, heap[pages[n]].path)
    /\ pc \in {"return", "done"} =>
          output = ReportLines(PagesByAscendingPath)
                   \o <<OutLine("TOTAL", <<>>, Len(PagesByAscendingPath),
                                TotalLinks(PagesByAscendingPath),
                                TotalAnchors(PagesByAscendingPath), NoError)>>

\* The report is printed, with two pages in it that were found in the other
\* order than that of their paths.
C22_Witness ==
    /\ pc = "done"
    /\ \E i \in PageIds : \E j \in PageIds :
          /\ i < j
          /\ StrLess(heap[j].path, heap[i].path)
          /\ PageLines(heap[i]) # <<>>
          /\ PageLines(heap[j]) # <<>>

(***************************************************************************)
(* C23                                                                     *)
(***************************************************************************)
\* The target of link l is a page of the registry and holds its fragment.
TargetChecked(l) ==
    /\ l.URL.Path \in DOMAIN pagesByPath
    /\ l.URL.Fragment # <<>> =>
          \E a \in 1..Len(heap[pagesByPath[l.URL.Path]].anchors) :
              heap[pagesByPath[l.URL.Path]].anchors[a] = l.URL.Fragment

\* C23: a fatal error on a page or a link does not stop the others from being
\* processed: once linkcheckAll has returned, on every page without a
\* page-level error every link without scheme that is left without fatal
\* error has its target in the registry and its fragment, if any, among the
\* anchors of the target.
C23_EveryLinkChecked ==
    pc \in {"report", "return", "done"} =>
        \A i \in PageIds :
            heap[i].fatalError = NoError =>
                \A k \in LinkIds(i) :
                    (heap[i].links[k].fatalError = NoError /\ InTree(heap[i].links[k]))
                    => TargetChecked(heap[i].links[k])

\* linkcheckAll has returned; a page holds a link in error and after it a
\* link with a fragment that passed, and another page is in error as a whole.
C23_Witness ==
    /\ pc = "report"
    /\ \E j \in PageIds : heap[j].fatalError # NoError
    /\ \E i \in PageIds :
          /\ heap[i].fatalError = NoError
          /\ \E k \in LinkIds(i) : \E n \in LinkIds(i) :
                /\ k < n
                /\ heap[i].links[k].fatalError # NoError
                /\ heap[i].links[n].fatalError = NoError
                /\ InTree(heap[i].links[n])
                /\ heap[i].links[n].URL.Fragment # <<>>

(***************************************************************************)
(* C25                                                                     *)
(***************************************************************************)
\* Link new is link old, but for a fatal error set where there was none.
OnlyErrorSet(old, new) ==
    /\ new.rawLink = old.rawLink
    /\ new.lineNumber = old.lineNumber
    /\ new.URL = old.URL
    /\ old.fatalError # NoError => new.fatalError = old.fatalError

\* C25: during validation linkcheckPage(path) writes nothing but the fatal
\* error of links of the page at path that had none: the registry, the pages'
\* paths, classification and anchors, the links' raw strings, targets, number
\* and order, the links of the other pages and the fatal errors already set
\* stay as they are.
C25_OnlyLinkErrorsWritten ==
    [][(pc = "linkcheckAll" /\ cursor' = cursor + 1) =>
          /\ pages' = pages
          /\ pagesByPath' = pagesByPath
          /\ Len(heap') = Len(heap)
          /\ \A i \in PageIds :
                /\ [heap'[i] EXCEPT !.links = heap[i].links] = heap[i]
                /\ Len(heap'[i].links) = Len(heap[i].links)
                /\ \A k \in LinkIds(i) : OnlyErrorSet(heap[i].links[k], heap'[i].links[k])
                /\ i # pagesByPath[heap[pages[cursor]].path] => heap'[i] = heap[i]]_vars

\* linkcheckPage has set a fatal error on a link of a page that holds a link
\* in error from its resolution, while a page before it was left as it was.
C25_Witness ==
    /\ pc = "linkcheckAll"
    /\ cursor > 2
    /\ \E k \in LinkIds(pages[cursor - 1]) : \E n \in LinkIds(pages[cursor - 1]) :
          /\ heap[pages[cursor - 1]].links[k].URL.nil
          /\ ~heap[pages[cursor - 1]].links[n].URL.nil
          /\ heap[pages[cursor - 1]].links[n].fatalError # NoError

(***************************************************************************)
(* C27                                                                     *)
(***************************************************************************)
\* The message of the rule that raw violates among the rules of parseLink,
\* taken in their order: shortcode, _index.md, markdown extension ("" if none).
ParseLinkRule(raw) ==
    IF IsShortcode(raw) THEN "ref/refLink shortcodes must not be used, use %q instead"
    ELSE IF Base(PathPart(raw)) = IndexMd
    THEN "links must not end with _index.md, use \"%s/\" instead"
    ELSE IF Ext(PathPart(raw)) = MdExt
    THEN "links must not have .md extension, use \"%s%s\" instead"
    ELSE ""

SchemeRule == "scheme is required on links outside the hugo website"

\* The rules that the link raw violates on page p.
ViolatesSeveral(p, raw) ==
    \/ ParseLinkRule(raw) # "" /\ ~p.isHugoPage
    \/ Base(PathPart(raw)) = IndexMd /\ Ext(PathPart(raw)) = MdExt

C28_LineNumberOfTheLine ==
    \A i \in ReadPageIds : \A k \in LinkIds(i) :
        /\ heap[i].links[k].lineNumber \in 1..Len(FileLines(i))
        /\ \E n \in 1..Len(readMarkdownLineLinks(FileLines(i)[heap[i].links[k].lineNumber])) :
              readMarkdownLineLinks(FileLines(i)[heap[i].links[k].lineNumber])[n]
                  = heap[i].links[k].rawLink


(***************************************************************************)
(* The concurrent variant of the tool: a walker that starts one sender     *)
(* goroutine per markdown file, and one consumer, readMDLoop.              *)
(***************************************************************************)
\* The most markdown entries that the tree of the concurrent variant holds.
MaxMarkdown == 3

LockedFileNode == [isDir |-> FALSE, noread |-> TRUE, content |-> <<>>]

\* The entries with the extension .md that the tree may hold: a page outside
\* the website, a file that cannot be read, a directory that cannot be read,
\* and a page of the website in the language it.
MarkdownEntries ==
    { << <<"/","r","o","o","t","/","a",".","m","d">>, FileNode(<<"[","a","]","(","a","n","o","t","h","e","r",")"," ","[","]","(","%",")"," ","[","c","]","(","h","t","t","p",":","/","/","a",")","\n","[","d","]","(","a","n","o","t","h","e","r",")"," ","[","e","]","(","/","s","r","c","/","x",")","\n">>) >>,
      << <<"/","r","o","o","t","/","b",".","m","d">>, LockedFileNode >>,
      << <<"/","r","o","o","t","/","d",".","m","d">>, LockedDirNode >>,
      << <<"/","r","o","o","t","/","h","u","g","o","/","c","o","n","t","e","n","t","/","i","t","/","c",".","m","d">>, FileNode(<<"[","a","]","(","x",")"," ","!","[","b","]","(","#","y",")","\n">>) >> }

TreeOf(files) ==
    LET base ==
            (<<"/","r","o","o","t">> :> DirNode) @@ (<<"/","r","o","o","t","/","h","u","g","o">> :> DirNode)
            @@ (<<"/","r","o","o","t","/","h","u","g","o","/","c","o","n","t","e","n","t">> :> DirNode)
            @@ (<<"/","r","o","o","t","/","h","u","g","o","/","c","o","n","t","e","n","t","/","i","t">> :> DirNode)
            @@ (<<"/","r","o","o","t","/","n","o","t","e","s">> :> FileNode(<<"[","a","]","(","a","n","o","t","h","e","r",")","\n">>))
    IN [p \in DOMAIN base \cup {e[1] : e \in files} |->
            IF p \in DOMAIN base THEN base[p] ELSE (CHOOSE e \in files : e[1] = p)[2]]

\* What the concurrent variant never writes.
fixed == <<root, hugoFolder, hugoLanguages, verbose, fs, pages, pagesByPath, cursor>>

\* Something doReadMD does that other goroutines can see: a call of addProblem
\* or a line of the log.
Event(kind, msg) == [kind |-> kind, msg |-> msg]

\* addProblem(format, a...): the message is appended under the mutex, and
\* logged first when --verbose is set.
addProblem(msg) ==
    /\ problems' = Append(problems, msg)
    /\ output' = IF verbose THEN Append(output, Err(" PROBLEM! %s", msg, <<>>)) ELSE output

\* A panic of the runtime ends the process with status 2.
Panic(text) ==
    /\ output' = Append(output, Err("panic: %s", text, <<>>))
    /\ pc' = "panic"
    /\ exitCode' = 2

\* type page struct of the concurrent variant, classified as newPage does.
pageOf(p) ==
    [path |-> p.path, isHugoPage |-> p.isHugoPage,
     hugoLanguage |-> p.hugoLanguage, hugoPath |-> p.hugoPath]

\* newPage of the concurrent variant: a page of the website in none of the
\* languages is a problem, the page is returned all the same.
newPageProblems(p) ==
    IF p.fatalError = NoError THEN <<>>
    ELSE <<Event("addProblem",
                 Err("Hugo page %s does not belong to one of the know languages: %s",
                     p.fatalError.a1, p.fatalError.a2))>>

\* aRx at index i: a bracketed text, which may be empty, and a parenthesised
\* address of one character at least; neither stops at the end of a line.
\* [ok, from, to]: the address is s[from .. to - 1] and the match ends at to.
aRxAt(s, i) ==
    LET j == Find(s, i + 1, "]")
        k == Find(s, j + 2, ")")
    IN IF /\ s[i] = "["
          /\ j <= Len(s)
          /\ j + 1 <= Len(s) /\ s[j + 1] = "("
          /\ k <= Len(s) /\ k >= j + 3
       THEN [ok |-> TRUE, from |-> j + 2, to |-> k]
       ELSE [ok |-> FALSE, from |-> 0, to |-> 0]

RECURSIVE aRxFindAll(_, _)
aRxFindAll(s, i) ==
    LET After(m) == IF m.ok THEN <<SubSeq(s, m.from, m.to - 1)>> \o aRxFindAll(s, m.to + 1)
                    ELSE aRxFindAll(s, i + 1)
    IN IF i > Len(s) THEN <<>> ELSE After(aRxAt(s, i))

\* localLinks, the loop over the matches mv: an address below /src/ is
\* skipped, and so is one that was seen before.
RECURSIVE localLinksOf(_, _)
localLinksOf(mv, links) ==
    IF mv = <<>> THEN links
    ELSE localLinksOf(Tail(mv),
                      IF HasPrefix(mv[1], <<"/","s","r","c","/">>) \/ \E k \in 1..Len(links) : links[k] = mv[1]
                      THEN links ELSE Append(links, mv[1]))

localLinks(body) == localLinksOf(aRxFindAll(body, 1), <<>>)

\* doReadMD, the relocated URL ru of a link that parsed into u.
relocatedURL(p, u) ==
    IF u.Scheme # <<>> THEN u
    ELSE IF u.Path = <<>> THEN [u EXCEPT !.Path = p.path]
    ELSE [u EXCEPT !.Path = Join(<<Dir(p.path), u.Path>>)]

\* doReadMD, one turn of the loop over the links, with the answer u of url.Parse(l).
doReadMDLink(p, l, u) ==
    IF u.err # ""
    THEN Event("addProblem", Err("Error parsing url %q on page %q: %v", l, <<p.path, u.err>>))
    ELSE IF u.url.Scheme = <<>> /\ ~p.isHugoPage
    THEN Event("addProblem", Err("url %q on %s desn't have scheme", l, p.path))
    ELSE Event("log", Err("- %s (%s)", relocatedURL(p, u.url), l))

\* doReadMD, one turn of the loop over the links: url.Parse(l), then the rest.
doReadMDParsed(p, l) == CHOOSE e \in {doReadMDLink(p, l, u) : u \in {Parse(l)}} : TRUE

\* doReadMD after newPage returned p: the links are looked at only when
\* --verbose is set and the file could be read.
doReadMDPage(p, file, links) ==
    IF ~verbose THEN <<>>
    ELSE <<Event("log", Err("Reading %s %s %s", p.path, <<p.isHugoPage, p.hugoPath>>))>>
         \o IF file.err # "" THEN <<>>
            ELSE [k \in 1..Len(links) |-> doReadMDParsed(p, links[k])]

\* doReadMD, from the answer file of ioutil.ReadFile on.
doReadMDFile(p, file) ==
    CHOOSE t \in {doReadMDPage(p, file, links) : links \in {localLinks(file.content)}} : TRUE

\* doReadMD(path), what it does in order before it returns ReadFile's error.
doReadMD(path) ==
    CHOOSE t \in {newPageProblems(q) \o doReadMDFile(pageOf(q), file) :
                      q \in {newPage(path)}, file \in {ReadFile(path)}} : TRUE

\* The paths with the extension .md among the calls w of the walk function.
MarkdownPaths(w) == {w[k].path : k \in {j \in DOMAIN w : Ext(w[j].path) = MdExt}}

\* The paths the walk starts a sender for.
Dispatched == UNION {MarkdownPaths(w) : w \in {Walk(fs, root)}}

\* A call doReadMD(path): the page newPage allocates, the error returned, and
\* what is done before the return.
doReadMDCall(path) ==
    CHOOSE c \in {[path |-> path, page |-> pageOf(q), err |-> file.err,
                   todo |-> newPageProblems(q) \o doReadMDFile(pageOf(q), file)] :
                      q \in {newPage(path)}, file \in {ReadFile(path)}} : TRUE

\* The call of doReadMD for path among calls.
CallOf(calls, path) == CHOOSE c \in calls : c.path = path

InitConcurrent ==
    \E files \in SUBSET MarkdownEntries :
        /\ Cardinality(files) <= MaxMarkdown
        /\ root = RootDir
        /\ hugoFolder = HugoDir
        /\ hugoLanguages \in LanguageFlags
        /\ verbose \in BOOLEAN
        /\ fs = TreeOf(files)
        /\ pc = "main"
        /\ walkq = Walk(TreeOf(files), RootDir)
        /\ heap = <<>>
        /\ pages = <<>>
        /\ pagesByPath = [x \in {} |-> 0]
        /\ cursor = 0
        /\ output = <<>>
        /\ exitCode = -1
        /\ readmdwg = 0
        /\ readmdq = "open"
        /\ problems = <<>>
        /\ senders = {}
        /\ reader = Reader("idle", <<>>, "", <<>>, {doReadMDCall(path) : path \in Dispatched})

\* main: go readMDLoop(), then readAll up to the call of filepath.Walk, whose
\* calls of the walk function wait in walkq.
GoReadMDLoop ==
    /\ exitCode = -1
    /\ pc = "main"
    /\ reader' = [reader EXCEPT !.pc = "range"]
    /\ output' = Append(output, Err("Reading files from %s", root, <<>>))
    /\ pc' = "Walk"
    /\ UNCHANGED <<fixed, walkq, heap, exitCode, readmdwg, readmdq, problems, senders>>

\* readAll, one call of the walk function: an error of the walk is a problem,
\* and a path with the extension .md, error or not, gets a sender goroutine.
readAllWalkFn ==
    /\ exitCode = -1
    /\ pc = "Walk"
    /\ walkq # <<>>
    /\ IF Head(walkq).err
       THEN addProblem(Err("Error walking path %s: %v", Head(walkq).path, "permission denied"))
       ELSE UNCHANGED <<problems, output>>
    /\ IF Ext(Head(walkq).path) = MdExt
       THEN /\ readmdwg' = readmdwg + 1
            /\ senders' = senders \cup {Head(walkq).path}
       ELSE UNCHANGED <<readmdwg, senders>>
    /\ walkq' = Tail(walkq)
    /\ UNCHANGED <<fixed, pc, heap, exitCode, readmdq, reader>>

\* A variant of Wait that returns whatever the counter.
WaitReturnsAtOnce ==
    /\ exitCode = -1
    /\ pc = "Walk"
    /\ walkq = <<>>
    /\ pc' = "close"
    /\ UNCHANGED <<fixed, walkq, heap, output, exitCode, concurrent>>

\* readAll: filepath.Walk returned nil, and readmdwg.Wait() returns once the
\* counter is zero.
Wait ==
    /\ exitCode = -1
    /\ pc = "Walk"
    /\ walkq = <<>>
    /\ readmdwg = 0
    /\ pc' = "close"
    /\ UNCHANGED <<fixed, walkq, heap, output, exitCode, concurrent>>

\* readAll: close(readmdq), and the return to main.
Close ==
    /\ exitCode = -1
    /\ pc = "close"
    /\ readmdq' = "closed"
    /\ pc' = "inspect"
    /\ UNCHANGED <<fixed, walkq, heap, output, exitCode, readmdwg, problems, senders, reader>>

\* A variant of the send that leaves the sender waiting with its path.
SendKeepsSender ==
    /\ exitCode = -1
    /\ \E path \in senders :
         IF readmdq = "closed"
         THEN /\ Panic("send on closed channel")
              /\ UNCHANGED <<heap, senders, reader>>
         ELSE /\ reader.pc = "range"
              /\ senders' = senders
              /\ heap' = Append(heap, CallOf(reader.calls, path).page)
              /\ reader' = [reader EXCEPT !.pc = "doReadMD", !.path = path,
                                          !.err = CallOf(reader.calls, path).err,
                                          !.todo = CallOf(reader.calls, path).todo]
              /\ UNCHANGED <<pc, output, exitCode>>
    /\ UNCHANGED <<fixed, walkq, readmdwg, readmdq, problems>>

\* readmdq <- path meets the receive of readMDLoop's range: the sender ends,
\* the consumer enters doReadMD(path) and newPage allocates the page. A send
\* on a closed channel panics.
Send ==
    /\ exitCode = -1
    /\ \E path \in senders :
         IF readmdq = "closed"
         THEN /\ Panic("send on closed channel")
              /\ UNCHANGED <<heap, senders, reader>>
         ELSE /\ reader.pc = "range"
              /\ senders' = senders \ {path}
              /\ heap' = Append(heap, CallOf(reader.calls, path).page)
              /\ reader' = [reader EXCEPT !.pc = "doReadMD", !.path = path,
                                          !.err = CallOf(reader.calls, path).err,
                                          !.todo = CallOf(reader.calls, path).todo]
              /\ UNCHANGED <<pc, output, exitCode>>
    /\ UNCHANGED <<fixed, walkq, readmdwg, readmdq, problems>>

\* doReadMD, its next call of addProblem or its next line of the log.
doReadMDStep ==
    /\ exitCode = -1
    /\ reader.pc = "doReadMD"
    /\ reader.todo # <<>>
    /\ IF Head(reader.todo).kind = "addProblem"
       THEN addProblem(Head(reader.todo).msg)
       ELSE /\ output' = Append(output, Head(reader.todo).msg)
            /\ UNCHANGED problems
    /\ reader' = [reader EXCEPT !.todo = Tail(reader.todo)]
    /\ UNCHANGED <<fixed, pc, walkq, heap, exitCode, readmdwg, readmdq, senders>>

\* A variant of Done that leaves the counter as it is.
DoneForgotten ==
    /\ exitCode = -1
    /\ reader.pc = "doReadMD"
    /\ reader.todo = <<>>
    /\ reader' = [reader EXCEPT !.pc = IF reader.err # "" THEN "addProblem" ELSE "range"]
    /\ UNCHANGED <<fixed, pc, walkq, heap, output, exitCode, readmdwg, readmdq, problems, senders>>

\* doReadMD returns: the deferred readmdwg.Done() runs, and readMDLoop has the
\* error in hand. A counter below zero panics.
Done ==
    /\ exitCode = -1
    /\ reader.pc = "doReadMD"
    /\ reader.todo = <<>>
    /\ IF readmdwg = 0
       THEN /\ Panic("sync: negative WaitGroup counter")
            /\ UNCHANGED <<readmdwg, reader>>
       ELSE /\ readmdwg' = readmdwg - 1
            /\ reader' = [reader EXCEPT !.pc = IF reader.err # "" THEN "addProblem" ELSE "range"]
            /\ UNCHANGED <<pc, output, exitCode>>
    /\ UNCHANGED <<fixed, walkq, heap, readmdq, problems, senders>>

\* The message of readMDLoop for the error err of doReadMD(path).
ErrorReading(path, err) == Err("Error reading %s: %v", path, err)

\* readMDLoop: doReadMD returned an error, which is a problem.
readMDLoopError ==
    /\ exitCode = -1
    /\ reader.pc = "addProblem"
    /\ addProblem(ErrorReading(reader.path, reader.err))
    /\ reader' = [reader EXCEPT !.pc = "range"]
    /\ UNCHANGED <<fixed, pc, walkq, heap, exitCode, readmdwg, readmdq, senders>>

\* readMDLoop: the range over the closed channel ends, and the goroutine with it.
readMDLoopEnd ==
    /\ exitCode = -1
    /\ reader.pc = "range"
    /\ readmdq = "closed"
    /\ reader' = [reader EXCEPT !.pc = "end"]
    /\ UNCHANGED <<fixed, pc, walkq, heap, output, exitCode, readmdwg, readmdq, problems, senders>>

\* main: if len(problems) > 0, read without the mutex.
Inspect ==
    /\ exitCode = -1
    /\ pc = "inspect"
    /\ Len(problems) > 0
    /\ pc' = "Printf"
    /\ UNCHANGED <<fixed, walkq, heap, output, exitCode, concurrent>>

\* main: no problem was seen, main returns and the process ends with status 0.
MainReturn ==
    /\ exitCode = -1
    /\ pc = "inspect"
    /\ Len(problems) = 0
    /\ pc' = "done"
    /\ exitCode' = 0
    /\ UNCHANGED <<fixed, walkq, heap, output, concurrent>>

\* main: the line with the number of problems, which reads problems again.
Printf ==
    /\ exitCode = -1
    /\ pc = "Printf"
    /\ output' = Append(output, Err("%d problem detected:", Len(problems), <<>>))
    /\ pc' = "os.Exit"
    /\ UNCHANGED <<fixed, walkq, heap, exitCode, concurrent>>

\* main: the range over problems, which reads the slice a third time, one
\* line per problem, and os.Exit(1).
OsExit ==
    /\ exitCode = -1
    /\ pc = "os.Exit"
    /\ output' = output \o [k \in 1..Len(problems) |-> Err(" - %s", problems[k], <<>>)]
    /\ pc' = "done"
    /\ exitCode' = 1
    /\ UNCHANGED <<fixed, walkq, heap, concurrent>>

NextConcurrent ==
    \/ GoReadMDLoop \/ readAllWalkFn \/ Wait \/ Close
    \/ Send \/ doReadMDStep \/ Done \/ readMDLoopError \/ readMDLoopEnd
    \/ Inspect \/ MainReturn \/ Printf \/ OsExit

SpecConcurrent == InitConcurrent /\ [][NextConcurrent]_vars

\* The steps of each goroutine: main, which runs readAll; the consumer; and a
\* sender, whose only step needs the consumer at its receive.
MainSteps == GoReadMDLoop \/ readAllWalkFn \/ Wait \/ Close \/ Inspect \/ MainReturn \/ Printf \/ OsExit
ReaderSteps == doReadMDStep \/ Done \/ readMDLoopError \/ readMDLoopEnd

\* The concurrent variant under a scheduler that lets every goroutine run.
FairSpecConcurrent ==
    /\ InitConcurrent
    /\ [][NextConcurrent]_vars
    /\ WF_vars(MainSteps)
    /\ WF_vars(ReaderSteps)
    /\ WF_vars(Send)

(***************************************************************************)
(* C24                                                                     *)
(***************************************************************************)
\* The pages doReadMD allocated for path, one per call.
PagesOf(path) == {i \in DOMAIN heap : heap[i].path = path}

\* readAll is past readmdwg.Wait().
WaitReturned == pc \in {"close", "inspect", "Printf", "os.Exit", "done"}

\* C24: when readmdwg.Wait returns, and from then on, every path the walk
\* dispatched has been received and doReadMD has returned for it, exactly once
\* each: no sender still waits, the consumer is outside doReadMD, and doReadMD
\* ran once for each dispatched path and for nothing else.
C24_WaitAfterEachFileHandledOnce ==
    WaitReturned =>
        /\ senders = {}
        /\ reader.pc # "doReadMD"
        /\ \A path \in Dispatched : Cardinality(PagesOf(path)) = 1
        /\ \A i \in DOMAIN heap : heap[i].path \in Dispatched

\* Wait has just returned after three files went through doReadMD.
C24_Witness ==
    /\ pc = "close"
    /\ Cardinality(Dispatched) = 3
    /\ Len(heap) = 3

(***************************************************************************)
(* C26                                                                     *)
(***************************************************************************)
\* The problems that the processing of path records: those of doReadMD, and
\* the read error that readMDLoop reports.
FileProblems(path) ==
    {doReadMD(path)[k].msg : k \in {j \in DOMAIN doReadMD(path) : doReadMD(path)[j].kind = "addProblem"}}
    \cup (IF ReadFile(path).err # "" THEN {ErrorReading(path, ReadFile(path).err)} ELSE {})

Recorded(msg) == \E k \in DOMAIN problems : problems[k] = msg

\* readAll has returned to main.
ReadAllReturned == pc \in {"inspect", "Printf", "os.Exit", "done"}

\* C26: once readAll has returned, every problem of every dispatched file is
\* in problems, and the process does not end with status 0 when a file has
\* a problem.
C26_AllProblemsCollected ==
    /\ ReadAllReturned => \A path \in Dispatched : \A msg \in FileProblems(path) : Recorded(msg)
    /\ exitCode = 0 => \A path \in Dispatched : FileProblems(path) = {}

(***************************************************************************)
(* C29                                                                     *)
(***************************************************************************)
\* C29: no sender waits when the channel is closed or about to be closed, the
\* counter of the WaitGroup is never negative, and the process never panics.
C29_NoSendOnClosedChannel ==
    /\ (pc = "close" \/ readmdq = "closed") => senders = {}
    /\ readmdwg >= 0
    /\ pc # "panic"

\* The channel is closed after two senders completed their send.
C29_Witness ==
    /\ readmdq = "closed"
    /\ Len(heap) >= 2
    /\ senders = {}

(***************************************************************************)
(* C30                                                                     *)
(***************************************************************************)
\* C30, as stated: under a fair scheduler readAll eventually returns, and
\* once the channel is closed the loop of the consumer eventually ends.
C30_ReadAllReturnsAndLoopEnds ==
    /\ <>ReadAllReturned
    /\ (readmdq = "closed") ~> (reader.pc = "end")

\* C30, as the code has it: under a fair scheduler readAll eventually returns;
\* once the channel is closed the consumer is at its receive, at the report
\* of a read error or at its end, and its loop ends unless the process
\* exits before.
C30_ReadAllReturnsLoopEndsUnlessExit ==
    /\ <>ReadAllReturned
    /\ [](readmdq = "closed" => reader.pc \in {"range", "addProblem", "end"})
    /\ (readmdq = "closed") ~> (reader.pc = "end" \/ exitCode # -1)

\* The consumer's loop has ended after two files, while main still runs.
C30_Witness ==
    /\ reader.pc = "end"
    /\ exitCode = -1
    /\ Len(heap) >= 2
====
